---- MODULE Spec2Model ----
(***************************************************************************)
(* Model of src/src/command_line_parser.cc: the typed value parsers, the   *)
(* compound parsers, the port collision check and the option scan of       *)
(* TritonParser::Parse.                                                    *)
(*                                                                         *)
(* Strings are TLA+ strings; positions are 0-based as in std::string and   *)
(* npos is -1 (the value an int receives from std::string::npos).          *)
(***************************************************************************)
EXTENDS Integers, Sequences, FiniteSets, TLC

VARIABLES
  arg,      \* the string handed to a parse helper
  ret,      \* what the last parse helper call returned or threw
  lparams,  \* the TritonServerParameters under construction / under check
  check,    \* outcome of TritonServerParameters::CheckPortCollision
  env,      \* the environment variables of the process
  argv,     \* the tokens handed to TritonParser::Parse, argv[0] first
  optind,   \* the scan cursor of getopt_long, a global of the process
  optarg,   \* the argument of the option getopt_long returned last
  locals,   \* the local flags of Parse
  cerr,     \* the warnings written to std::cerr, oldest first
  pc,       \* where Parse stands: "idle", "scan", "validate", "returned", "thrown"
  thrown    \* the exception that ended Parse

parseVars == <<env, argv, optind, optarg, locals, cerr, pc, thrown>>

vars == <<arg, ret, lparams, check, parseVars>>

(***************************************************************************)
(* Bounds                                                                  *)
(***************************************************************************)
MaxLen == 3          \* length of the generated numeric / boolean arguments
MaxSettingLen == 5   \* length of the generated "<name>,<key>=<value>" arguments
MaxArgs == 3         \* number of tokens behind the program name

(***************************************************************************)
(* std::string                                                             *)
(***************************************************************************)
npos == -1

\* s[i], i counted from 0
CharAt(s, i) == SubSeq(s, i + 1, i + 1)

\* s.substr(pos): the characters from pos to the end
SubstrFrom(s, pos) == SubSeq(s, pos + 1, Len(s))

\* s.substr(pos, n): at most n characters from pos
Substr(s, pos, n) ==
  SubSeq(s, pos + 1, IF pos + n > Len(s) THEN Len(s) ELSE pos + n)

\* whether sub occurs in s at position p
OccursAt(s, sub, p) ==
  /\ p >= 0
  /\ p + Len(sub) <= Len(s)
  /\ Substr(s, p, Len(sub)) = sub

\* s.find(sub, from): the lowest position >= from where sub occurs, else npos
Find(s, sub, from) ==
  LET hits == {p \in from..Len(s) : OccursAt(s, sub, p)}
  IN  IF hits = {} THEN npos
      ELSE CHOOSE p \in hits : \A q \in hits : p <= q

\* s.rfind(sub): the highest position where sub occurs, else npos
RFind(s, sub) ==
  LET hits == {p \in 0..Len(s) : OccursAt(s, sub, p)}
  IN  IF hits = {} THEN npos
      ELSE CHOOSE p \in hits : \A q \in hits : p >= q

\* std::tolower in the "C" locale, on one character
LowerTable ==
  [A |-> "a", B |-> "b", C |-> "c", D |-> "d", E |-> "e", F |-> "f",
   G |-> "g", H |-> "h", I |-> "i", J |-> "j", K |-> "k", L |-> "l",
   M |-> "m", N |-> "n", O |-> "o", P |-> "p", Q |-> "q", R |-> "r",
   S |-> "s", T |-> "t", U |-> "u", V |-> "v", W |-> "w", X |-> "x",
   Y |-> "y", Z |-> "z"]

tolower(c) == IF c \in DOMAIN LowerTable THEN LowerTable[c] ELSE c

\* std::transform(s.begin(), s.end(), s.begin(), tolower)
RECURSIVE ToLower(_)
ToLower(s) ==
  IF s = "" THEN ""
  ELSE tolower(CharAt(s, 0)) \o ToLower(SubstrFrom(s, 1))

\* all strings over an alphabet of at most n characters
RECURSIVE Strs(_, _)
Strs(alphabet, n) ==
  IF n = 0 THEN {""}
  ELSE LET shorter == Strs(alphabet, n - 1)
       IN  shorter \cup {s \o c : s \in shorter, c \in alphabet}

(***************************************************************************)
(* What a call yields: a value, or the exception it throws                 *)
(***************************************************************************)
Ok(v) == [status |-> "ok", value |-> <<v>>]
Throw(e) == [status |-> e, value |-> <<>>]
IsOk(r) == r.status = "ok"
ValueOf(r) == r.value[1]

(***************************************************************************)
(* strtol / strtoull / strtod as std::stoi, std::stoull, std::stoll and    *)
(* std::stod call them: leading white space is skipped, an optional sign   *)
(* and the longest run of digits are converted, and whatever follows is    *)
(* left unread (no position is asked for, so it is not looked at).         *)
(***************************************************************************)
IsSpace(c) == c \in {" ", "\t", "\n", "\r"}
Digits == {"0", "1", "2", "3", "4", "5", "6", "7", "8", "9"}
IsDigit(c) == c \in Digits
DigitVal(c) ==
  CASE c = "0" -> 0 [] c = "1" -> 1 [] c = "2" -> 2 [] c = "3" -> 3
    [] c = "4" -> 4 [] c = "5" -> 5 [] c = "6" -> 6 [] c = "7" -> 7
    [] c = "8" -> 8 [] c = "9" -> 9

\* first position >= i holding no white space
RECURSIVE SkipSpace(_, _)
SkipSpace(s, i) ==
  IF i < Len(s) /\ IsSpace(CharAt(s, i)) THEN SkipSpace(s, i + 1) ELSE i

\* first position >= i holding no digit
RECURSIVE DigitsEnd(_, _)
DigitsEnd(s, i) ==
  IF i < Len(s) /\ IsDigit(CharAt(s, i)) THEN DigitsEnd(s, i + 1) ELSE i

\* a run of digits without its leading zeros ("0" for zero)
RECURSIVE Canonical(_)
Canonical(d) ==
  IF Len(d) > 1 /\ CharAt(d, 0) = "0" THEN Canonical(SubstrFrom(d, 1))
  ELSE IF d = "" THEN "0" ELSE d

\* a run of digits without its trailing zeros
RECURSIVE StripTrailingZeros(_)
StripTrailingZeros(d) ==
  IF d # "" /\ CharAt(d, Len(d) - 1) = "0"
    THEN StripTrailingZeros(Substr(d, 0, Len(d) - 1))
    ELSE d

\* a <= b for runs of digits of equal length
RECURSIVE DigitsLeq(_, _)
DigitsLeq(a, b) ==
  IF a = "" THEN TRUE
  ELSE LET x == DigitVal(CharAt(a, 0))
           y == DigitVal(CharAt(b, 0))
       IN  IF x # y THEN x < y
           ELSE DigitsLeq(SubstrFrom(a, 1), SubstrFrom(b, 1))

\* a <= b for canonical numerals
NumeralLeq(a, b) ==
  \/ Len(a) < Len(b)
  \/ Len(a) = Len(b) /\ DigitsLeq(a, b)

\* the number a canonical numeral of at most 10 digits denotes, negated when
\* neg (accumulated with the sign so that INT_MIN is reached without overflow)
RECURSIVE NumeralValue(_, _, _)
NumeralValue(d, neg, acc) ==
  IF d = "" THEN acc
  ELSE NumeralValue(SubstrFrom(d, 1), neg,
         IF neg THEN acc * 10 - DigitVal(CharAt(d, 0))
                ELSE acc * 10 + DigitVal(CharAt(d, 0)))

\* the integer scan shared by strtol, strtoll and strtoull (base 10)
ScanInteger(s) ==
  LET i == SkipSpace(s, 0)
      signed == i < Len(s) /\ CharAt(s, i) \in {"+", "-"}
      j == IF signed THEN i + 1 ELSE i
      k == DigitsEnd(s, j)
  IN  [converted |-> k > j,
       neg |-> signed /\ CharAt(s, i) = "-",
       numeral |-> Canonical(Substr(s, j, k - j)),
       end |-> IF k > j THEN k ELSE 0]

\* the decimal floating point scan of strtod: digits with an optional
\* fraction. (The exponent, hexadecimal, "inf" and "nan" forms need the
\* characters e, x after 0, i and n in that place; ScanDouble stops at them.)
ScanDouble(s) ==
  LET i == SkipSpace(s, 0)
      signed == i < Len(s) /\ CharAt(s, i) \in {"+", "-"}
      j == IF signed THEN i + 1 ELSE i
      k == DigitsEnd(s, j)
      dot == k < Len(s) /\ CharAt(s, k) = "."
      m == IF dot THEN DigitsEnd(s, k + 1) ELSE k
      \* a fraction needs a digit on one side of the point at least
      fraction == dot /\ (k > j \/ m > k + 1)
      e == IF fraction THEN m ELSE k
  IN  [converted |-> k > j \/ fraction,
       neg |-> signed /\ CharAt(s, i) = "-",
       whole |-> Canonical(Substr(s, j, k - j)),
       frac |-> IF fraction THEN StripTrailingZeros(Substr(s, k + 1, m - k - 1))
                ELSE "",
       end |-> IF k > j \/ fraction THEN e ELSE 0]

IntMaxNumeral == "2147483647"     \* INT_MAX
IntMinNumeral == "2147483648"     \* -INT_MIN
Int64MaxNumeral == "9223372036854775807"
Int64MinNumeral == "9223372036854775808"
Uint64MaxNumeral == "18446744073709551615"

(***************************************************************************)
(* ParseOption<T>                                                          *)
(***************************************************************************)
\* ParseOption<int>: std::stoi
ParseOptionInt(a) ==
  LET r == ScanInteger(a)
  IN  IF ~r.converted THEN Throw("std::invalid_argument")
      ELSE IF ~NumeralLeq(r.numeral,
                          IF r.neg THEN IntMinNumeral ELSE IntMaxNumeral)
        THEN Throw("std::out_of_range")
      ELSE Ok(NumeralValue(r.numeral, r.neg, 0))

\* a 64-bit value is kept as its decimal numeral, the text std::to_string
\* gives for it
SignedNumeral(neg, numeral) ==
  IF neg /\ numeral # "0" THEN "-" \o numeral ELSE numeral

\* ParseOption<int64_t>: std::stoll
ParseOptionInt64(a) ==
  LET r == ScanInteger(a)
  IN  IF ~r.converted THEN Throw("std::invalid_argument")
      ELSE IF ~NumeralLeq(r.numeral,
                          IF r.neg THEN Int64MinNumeral ELSE Int64MaxNumeral)
        THEN Throw("std::out_of_range")
      ELSE Ok(SignedNumeral(r.neg, r.numeral))

\* ParseOption<uint64_t>: std::stoull. strtoull negates a value given with a
\* minus sign in the unsigned type: "-n" yields 2^64 - n.
ParseOptionUint64(a) ==
  LET r == ScanInteger(a)
  IN  IF ~r.converted THEN Throw("std::invalid_argument")
      ELSE IF ~NumeralLeq(r.numeral, Uint64MaxNumeral)
        THEN Throw("std::out_of_range")
      ELSE IF r.neg /\ r.numeral # "0" THEN Ok("2^64-" \o r.numeral)
      ELSE Ok(r.numeral)

\* ParseOption<double>: std::stod. The value is kept as sign, whole part and
\* fraction digits.
ParseOptionDouble(a) ==
  LET r == ScanDouble(a)
  IN  IF ~r.converted THEN Throw("std::invalid_argument")
      ELSE Ok([neg |-> r.neg /\ ~(r.whole = "0" /\ r.frac = ""),
               whole |-> r.whole, frac |-> r.frac])

\* ParseOption<bool> comparing the argument as given, without lowering it
ParseOptionBool_CaseSensitive(a) ==
  IF a = "true" \/ a = "on" \/ a = "1" THEN Ok(TRUE)
  ELSE IF a = "false" \/ a = "off" \/ a = "0" THEN Ok(FALSE)
  ELSE Throw("ParseException")

\* ParseOption<bool>
ParseOptionBool(a) ==
  LET larg == ToLower(a)
  IN  IF larg = "true" \/ larg = "on" \/ larg = "1" THEN Ok(TRUE)
      ELSE IF larg = "false" \/ larg = "off" \/ larg = "0" THEN Ok(FALSE)
      ELSE Throw("ParseException")

Types == {"int", "uint64_t", "int64_t", "double", "bool"}

\* the specialization of ParseOption the type parameter selects
ParseOption(T, a) ==
  CASE T = "int" -> ParseOptionInt(a)
    [] T = "uint64_t" -> ParseOptionUint64(a)
    [] T = "int64_t" -> ParseOptionInt64(a)
    [] T = "double" -> ParseOptionDouble(a)
    [] T = "bool" -> ParseOptionBool(a)

(***************************************************************************)
(* Compound parsers                                                        *)
(***************************************************************************)
\* ParsePairOption splitting at the last occurrence of the delimiter
ParsePairOption_LastDelim(T1, T2, a, delim_str) ==
  LET delim == RFind(a, delim_str)
      first == ParseOption(T1, Substr(a, 0, delim))
      second == ParseOption(T2, SubstrFrom(a, delim + Len(delim_str)))
  IN  IF delim < 0 THEN Throw("ParseException")
      ELSE IF ~IsOk(first) THEN first
      ELSE IF ~IsOk(second) THEN second
      ELSE Ok(<<ValueOf(first), ValueOf(second)>>)

\* ParsePairOption<T1, T2>(arg, delim_str). The two halves are converted
\* left to right, so the first half's exception is the one thrown.
ParsePairOption(T1, T2, a, delim_str) ==
  LET delim == Find(a, delim_str, 0)
      first_string == Substr(a, 0, delim)
      second_string == SubstrFrom(a, delim + Len(delim_str))
      first == ParseOption(T1, first_string)
      second == ParseOption(T2, second_string)
  IN  IF delim < 0 THEN Throw("ParseException")
      ELSE IF ~IsOk(first) THEN first
      ELSE IF ~IsOk(second) THEN second
      ELSE Ok(<<ValueOf(first), ValueOf(second)>>)

\* the instantiations of ParsePairOption the parser uses:
\* --sagemaker-safe-port-range, --cuda-memory-pool-byte-size,
\* --model-load-gpu-limit
PairInstances ==
  {[T1 |-> "int", T2 |-> "int", delim_str |-> "-"],
   [T1 |-> "int", T2 |-> "uint64_t", delim_str |-> ":"],
   [T1 |-> "int", T2 |-> "double", delim_str |-> ":"]}

\* ParseCacheConfigOption accepting a comma at position 0
ParseCacheConfigOption_EmptyName(a) ==
  LET delim_name == Find(a, ",", 0)
      delim_setting == Find(a, "=", delim_name + 1)
      setting_string == Substr(a, delim_name + 1, delim_setting - delim_name - 1)
      value_string == SubstrFrom(a, delim_setting + 1)
  IN  IF delim_name < 0 THEN Throw("ParseException")
      ELSE IF delim_setting < 0 THEN Throw("ParseException")
      ELSE IF setting_string = "" \/ value_string = ""
        THEN Throw("ParseException")
      ELSE Ok(<<Substr(a, 0, delim_name), setting_string, value_string>>)

\* TritonParser::ParseCacheConfigOption
ParseCacheConfigOption(a) ==
  LET delim_name == Find(a, ",", 0)
      delim_setting == Find(a, "=", delim_name + 1)
      name_string == Substr(a, 0, delim_name)
      setting_string == Substr(a, delim_name + 1, delim_setting - delim_name - 1)
      value_string == SubstrFrom(a, delim_setting + 1)
  IN  IF ~(delim_name > 0) THEN Throw("ParseException")
      ELSE IF delim_setting < 0 THEN Throw("ParseException")
      ELSE IF setting_string = "" \/ value_string = ""
        THEN Throw("ParseException")
      ELSE Ok(<<name_string, setting_string, value_string>>)

\* TritonParser::ParseBackendConfigOption: without a comma the setting is a
\* global one and the name stays empty
ParseBackendConfigOption(a) ==
  LET delim_name == Find(a, ",", 0)
      delim_setting == Find(a, "=", delim_name + 1)
      name_string == IF delim_name > 0 THEN Substr(a, 0, delim_name) ELSE ""
      setting_string == Substr(a, delim_name + 1, delim_setting - delim_name - 1)
      value_string == SubstrFrom(a, delim_setting + 1)
  IN  IF delim_name = 0 THEN Throw("ParseException")
      ELSE IF delim_setting < 0 THEN Throw("ParseException")
      ELSE IF setting_string = "" \/ value_string = ""
        THEN Throw("ParseException")
      ELSE Ok(<<name_string, setting_string, value_string>>)

\* TritonParser::ParseHostPolicyOption
ParseHostPolicyOption(a) ==
  LET delim_name == Find(a, ",", 0)
      delim_setting == Find(a, "=", delim_name + 1)
      name_string == Substr(a, 0, delim_name)
      setting_string == Substr(a, delim_name + 1, delim_setting - delim_name - 1)
      value_string == SubstrFrom(a, delim_setting + 1)
  IN  IF delim_name < 0 \/ delim_setting < 0 THEN Throw("ParseException")
      ELSE IF name_string = "" \/ setting_string = "" \/ value_string = ""
        THEN Throw("ParseException")
      ELSE Ok(<<name_string, setting_string, value_string>>)

\* ParseRateLimiterResourceOption without the search for a third colon
ParseRateLimiterResourceOption_NoThirdColon(a) ==
  LET delim_first == Find(a, ":", 0)
      delim_second == Find(a, ":", delim_first + 1)
      name_string == Substr(a, 0, delim_first)
      count == IF delim_second # npos
                 THEN ParseOptionInt(Substr(a, delim_first + 1,
                                            delim_second - delim_first - 1))
               ELSE ParseOptionInt(SubstrFrom(a, delim_first + 1))
      device_id == ParseOptionInt(SubstrFrom(a, delim_second + 1))
  IN  IF delim_second # npos
        THEN IF ~IsOk(count) THEN count
             ELSE IF ~IsOk(device_id) THEN device_id
             ELSE Ok(<<name_string, ValueOf(count), ValueOf(device_id)>>)
      ELSE IF delim_first # npos
        THEN IF ~IsOk(count) THEN count
             ELSE Ok(<<name_string, ValueOf(count), -1>>)
      ELSE Throw("ParseException")

\* ParseRateLimiterResourceOption; a position is a size_t, so the search
\* after npos starts at 0
ParseRateLimiterResourceOption(a) ==
  LET delim_first == Find(a, ":", 0)
      delim_second == Find(a, ":", delim_first + 1)
      delim_third == Find(a, ":", delim_second + 1)
      name_string == Substr(a, 0, delim_first)
      count == IF delim_second # npos
                 THEN ParseOptionInt(Substr(a, delim_first + 1,
                                            delim_second - delim_first - 1))
               ELSE ParseOptionInt(SubstrFrom(a, delim_first + 1))
      device_id == ParseOptionInt(SubstrFrom(a, delim_second + 1))
  IN  IF delim_second # npos
        THEN IF delim_third # npos THEN Throw("ParseException")
             ELSE IF ~IsOk(count) THEN count
             ELSE IF ~IsOk(device_id) THEN device_id
             ELSE Ok(<<name_string, ValueOf(count), ValueOf(device_id)>>)
      ELSE IF delim_first # npos
        THEN IF ~IsOk(count) THEN count
             ELSE Ok(<<name_string, ValueOf(count), -1>>)
      ELSE Throw("ParseException")

SettingOptions == {"cache-config", "backend-config", "host-policy"}

\* the named-setting parser of each of the three options
ParseSettingOption(flag, a) ==
  CASE flag = "cache-config" -> ParseCacheConfigOption(a)
    [] flag = "backend-config" -> ParseBackendConfigOption(a)
    [] flag = "host-policy" -> ParseHostPolicyOption(a)

(***************************************************************************)
(* The parse helpers as operations: a helper is applied to the argument    *)
(* string and what it returns or throws is recorded.                       *)
(***************************************************************************)
NumericAlphabet == {"1", "2", "4", ".", "x", "-", ":"}
BoolAlphabet == {"o", "O", "n", "N", "f", "F", "0", "1"}
SettingAlphabet == {"a", ",", "="}

\* every way of writing a word in upper and lower case letters
RECURSIVE CaseVariants(_)
CaseVariants(w) ==
  IF w = "" THEN {""}
  ELSE LET c == CharAt(w, 0)
           ups == {u \in DOMAIN LowerTable : LowerTable[u] = c}
       IN  {h \o t : h \in {c} \cup ups, t \in CaseVariants(SubstrFrom(w, 1))}

ExampleArguments ==
  {"12", "12x", "1.4", " 12", "12 ", "+12", "-12", "1.40", "007",
   "2147483647", "2147483648", "-2147483648", "-2147483649",
   "8:1048576", "81048576", "1:2:3", "8000-8002", "1-2-4",
   "local,size=1048576", ",size=1", "local,size", "size=1", "a,b,c=d=e",
   "yes", "no", "tru", "truee", " true", "true ", "t", "2", "01", "10",
   "GPU_UTIL:4", "GPU_UTIL:4:0", "GPU_UTIL:4:0:1", "GPU_UTIL", "R1:x",
   "R1:4:x", "R1:4:-1", "x:1:2", ":1:2", "x::2", "1:1:1:1"}

Arguments ==
  Strs(NumericAlphabet, MaxLen) \cup Strs(BoolAlphabet, MaxLen)
    \cup Strs(SettingAlphabet, MaxSettingLen)
    \cup CaseVariants("true") \cup CaseVariants("false")
    \cup ExampleArguments

NoCall == [op |-> "none"]

\* no call of Parse is under way
ParseIdle ==
  /\ env = <<>>
  /\ argv = <<>>
  /\ optind = 1
  /\ optarg = ""
  /\ locals = <<>>
  /\ cerr = <<>>
  /\ pc = "idle"
  /\ thrown = <<>>

InitValue ==
  /\ arg \in Arguments
  /\ ret = NoCall
  /\ lparams = <<>>
  /\ check = <<>>
  /\ ParseIdle

CallParseOption ==
  /\ \E T \in Types :
       ret' = [op |-> "ParseOption", T |-> T, res |-> ParseOption(T, arg)]
  /\ UNCHANGED <<arg, lparams, check, parseVars>>

CallParsePairOption ==
  /\ \E i \in PairInstances :
       ret' = [op |-> "ParsePairOption", T1 |-> i.T1, T2 |-> i.T2,
               delim_str |-> i.delim_str,
               res |-> ParsePairOption(i.T1, i.T2, arg, i.delim_str)]
  /\ UNCHANGED <<arg, lparams, check, parseVars>>

CallParseSettingOption ==
  /\ \E flag \in SettingOptions :
       ret' = [op |-> "ParseSettingOption", flag |-> flag,
               res |-> ParseSettingOption(flag, arg)]
  /\ UNCHANGED <<arg, lparams, check, parseVars>>

CallParseRateLimiterResourceOption ==
  /\ ret' = [op |-> "ParseRateLimiterResourceOption",
             res |-> ParseRateLimiterResourceOption(arg)]
  /\ UNCHANGED <<arg, lparams, check, parseVars>>

NextValue ==
  \/ CallParseOption
  \/ CallParsePairOption
  \/ CallParseSettingOption
  \/ CallParseRateLimiterResourceOption

SpecValue == InitValue /\ [][NextValue]_vars

(***************************************************************************)
(* TritonServerParameters::CheckPortCollision                              *)
(***************************************************************************)
\* one element of the vector `ports`: the tuple's six components
PortEntry(name, address, port, has_range, range_min, range_max) ==
  [name |-> name, address |-> address, port |-> port,
   has_range |-> has_range, range_min |-> range_min, range_max |-> range_max]

\* the list built with the SageMaker entry added whether or not the service
\* is allowed
PortEntries_SageMakerAlways(p) ==
  (IF p.allow_http_
     THEN <<PortEntry("HTTP", p.http_address_, p.http_port_, FALSE, -1, -1)>>
     ELSE <<>>)
  \o (IF p.allow_grpc_
        THEN <<PortEntry("GRPC", p.grpc_address_, p.grpc_port_, FALSE, -1, -1)>>
        ELSE <<>>)
  \o (IF p.allow_metrics_
        THEN <<PortEntry("metrics", p.metrics_address_, p.metrics_port_,
                         FALSE, -1, -1)>>
        ELSE <<>>)
  \o <<PortEntry("SageMaker", p.sagemaker_address_, p.sagemaker_port_,
                 p.sagemaker_safe_range_set_,
                 p.sagemaker_safe_range_[1], p.sagemaker_safe_range_[2])>>
  \o (IF p.allow_vertex_ai_
        THEN <<PortEntry("Vertex AI", p.vertex_ai_address_, p.vertex_ai_port_,
                         FALSE, -1, -1)>>
        ELSE <<>>)

\* the list of enabled services and their constraints, in emplace_back order
PortEntries(p) ==
  (IF p.allow_http_
     THEN <<PortEntry("HTTP", p.http_address_, p.http_port_, FALSE, -1, -1)>>
     ELSE <<>>)
  \o (IF p.allow_grpc_
        THEN <<PortEntry("GRPC", p.grpc_address_, p.grpc_port_, FALSE, -1, -1)>>
        ELSE <<>>)
  \o (IF p.allow_metrics_
        THEN <<PortEntry("metrics", p.metrics_address_, p.metrics_port_,
                         FALSE, -1, -1)>>
        ELSE <<>>)
  \o (IF p.allow_sagemaker_
        THEN <<PortEntry("SageMaker", p.sagemaker_address_, p.sagemaker_port_,
                         p.sagemaker_safe_range_set_,
                         p.sagemaker_safe_range_[1], p.sagemaker_safe_range_[2])>>
        ELSE <<>>)
  \o (IF p.allow_vertex_ai_
        THEN <<PortEntry("Vertex AI", p.vertex_ai_address_, p.vertex_ai_port_,
                         FALSE, -1, -1)>>
        ELSE <<>>)

NoError == [what |-> "none"]

\* the ParseException of lines 686-691: the message names the compared
\* service, its port and the bounds of the range
PortRangeViolation(curr, comparing) ==
  [exception |-> "ParseException", what |-> "PortRangeViolation",
   services |-> <<comparing.name>>, port |-> comparing.port,
   range_min |-> curr.range_min, range_max |-> curr.range_max]

\* the conflict message naming the current service twice
PortConflict_SameService(curr, comparing) ==
  [exception |-> "ParseException", what |-> "PortConflict",
   services |-> <<curr.name, curr.name>>,
   address |-> curr.address, port |-> curr.port]

\* the ParseException of lines 694-700: the message names both services and
\* the address and port they share
PortConflict(curr, comparing) ==
  [exception |-> "ParseException", what |-> "PortConflict",
   services |-> <<curr.name, comparing.name>>,
   address |-> curr.address, port |-> curr.port]

\* comparing_it always starting right after the current service
FirstComparing_NoRestart(ports, curr) == curr + 1

\* comparing_it always starting at the beginning
FirstComparing_FromBegin(ports, curr) == 1

\* where comparing_it starts for curr_it: at the beginning when the current
\* service declares a range, right after the current service otherwise
FirstComparing(ports, curr) ==
  IF ports[curr].has_range THEN 1 ELSE curr + 1

\* the range applied to the port of the service that declares it
OutOfRange_OwnPort(curr, comparing) ==
  /\ curr.has_range
  /\ \/ curr.port < curr.range_min
     \/ curr.port > curr.range_max

\* "Set range and comparing service port is out of range"
OutOfRange(curr, comparing) ==
  /\ curr.has_range
  /\ \/ comparing.port < curr.range_min
     \/ comparing.port > curr.range_max

\* the two nested loops from the position (curr, comparing) on; `compared`
\* records each pair <<current service, compared service>> whose addresses
\* the loop body reads. Positions count from 1; Len(ports) + 1 is end().
RECURSIVE CheckLoop(_, _, _, _)
CheckLoop(ports, curr, comparing, compared) ==
  IF curr > Len(ports)
    THEN [error |-> NoError, compared |-> compared]
  ELSE IF comparing > Len(ports)
    THEN IF curr + 1 > Len(ports)
           THEN [error |-> NoError, compared |-> compared]
           ELSE CheckLoop(ports, curr + 1, FirstComparing(ports, curr + 1),
                          compared)
  ELSE IF comparing = curr
    THEN CheckLoop(ports, curr, comparing + 1, compared)
  ELSE LET c == ports[curr]
           o == ports[comparing]
           seen == Append(compared, <<c.name, o.name>>)
       IN  IF c.address # o.address
             THEN CheckLoop(ports, curr, comparing + 1, seen)
           ELSE IF OutOfRange(c, o)
             THEN [error |-> PortRangeViolation(c, o), compared |-> seen]
           ELSE IF c.port = o.port
             THEN [error |-> PortConflict(c, o), compared |-> seen]
           ELSE CheckLoop(ports, curr, comparing + 1, seen)

\* one run of CheckPortCollision on the parameters p
RunCheckPortCollision(p) ==
  LET ports == PortEntries(p)
  IN  IF ports = <<>> THEN [error |-> NoError, compared |-> <<>>]
      ELSE CheckLoop(ports, 1, FirstComparing(ports, 1), <<>>)

Addresses == {"0.0.0.0", "127.0.0.1"}
Ports == {8000, 8001, 8005}
Ranges == {<<8000, 8002>>, <<8001, 8002>>}

\* the parameters the check reads. No option writes sagemaker_address_ or
\* vertex_ai_address_, so both keep the one address they are constructed with.
PortParameters ==
  [allow_http_ : BOOLEAN, http_address_ : Addresses, http_port_ : Ports,
   allow_grpc_ : BOOLEAN, grpc_address_ : Addresses, grpc_port_ : Ports,
   allow_metrics_ : BOOLEAN, metrics_address_ : Addresses,
   metrics_port_ : Ports,
   allow_sagemaker_ : BOOLEAN, sagemaker_address_ : {"0.0.0.0"},
   sagemaker_port_ : Ports,
   sagemaker_safe_range_set_ : BOOLEAN, sagemaker_safe_range_ : Ranges,
   allow_vertex_ai_ : BOOLEAN, vertex_ai_address_ : {"0.0.0.0"},
   vertex_ai_port_ : Ports]

NotChecked == [done |-> FALSE]

InitPorts ==
  /\ lparams \in PortParameters
  /\ check = NotChecked
  /\ arg = ""
  /\ ret = NoCall
  /\ ParseIdle

CheckPortCollision ==
  /\ LET r == RunCheckPortCollision(lparams)
     IN  check' = [done |-> TRUE, error |-> r.error, compared |-> r.compared]
  /\ UNCHANGED <<arg, ret, lparams, parseVars>>

NextPorts == CheckPortCollision

SpecPorts == InitPorts /\ [][NextPorts]_vars

(***************************************************************************)
(* The option registry and the option scan                                 *)
(***************************************************************************)
Option(id, flag, kind) == [id_ |-> id, flag_ |-> flag, kind_ |-> kind]

\* the registry, in declaration order (every TRITON_ENABLE_* feature built
\* in); an argument description given as a format string is kind "Custom"
recognized_options_ ==
  << Option("OPTION_HELP", "help", "ArgNone"),
     Option("OPTION_LOG_VERBOSE", "log-verbose", "ArgInt"),
     Option("OPTION_LOG_INFO", "log-info", "ArgBool"),
     Option("OPTION_LOG_WARNING", "log-warning", "ArgBool"),
     Option("OPTION_LOG_ERROR", "log-error", "ArgBool"),
     Option("OPTION_LOG_FORMAT", "log-format", "ArgStr"),
     Option("OPTION_LOG_FILE", "log-file", "ArgStr"),
     Option("OPTION_ID", "id", "ArgStr"),
     Option("OPTION_MODEL_REPOSITORY", "model-store", "ArgStr"),
     Option("OPTION_MODEL_REPOSITORY", "model-repository", "ArgStr"),
     Option("OPTION_EXIT_ON_ERROR", "exit-on-error", "ArgBool"),
     Option("OPTION_DISABLE_AUTO_COMPLETE_CONFIG",
            "disable-auto-complete-config", "ArgNone"),
     Option("OPTION_STRICT_MODEL_CONFIG", "strict-model-config", "ArgBool"),
     Option("OPTION_STRICT_READINESS", "strict-readiness", "ArgBool"),
     Option("OPTION_ALLOW_HTTP", "allow-http", "ArgBool"),
     Option("OPTION_HTTP_PORT", "http-port", "ArgInt"),
     Option("OPTION_REUSE_HTTP_PORT", "reuse-http-port", "ArgBool"),
     Option("OPTION_HTTP_ADDRESS", "http-address", "ArgStr"),
     Option("OPTION_HTTP_THREAD_COUNT", "http-thread-count", "ArgInt"),
     Option("OPTION_ALLOW_GRPC", "allow-grpc", "ArgBool"),
     Option("OPTION_GRPC_PORT", "grpc-port", "ArgInt"),
     Option("OPTION_REUSE_GRPC_PORT", "reuse-grpc-port", "ArgBool"),
     Option("OPTION_GRPC_ADDRESS", "grpc-address", "ArgStr"),
     Option("OPTION_GRPC_INFER_ALLOCATION_POOL_SIZE",
            "grpc-infer-allocation-pool-size", "ArgInt"),
     Option("OPTION_GRPC_USE_SSL", "grpc-use-ssl", "ArgBool"),
     Option("OPTION_GRPC_USE_SSL_MUTUAL", "grpc-use-ssl-mutual", "ArgBool"),
     Option("OPTION_GRPC_SERVER_CERT", "grpc-server-cert", "ArgStr"),
     Option("OPTION_GRPC_SERVER_KEY", "grpc-server-key", "ArgStr"),
     Option("OPTION_GRPC_ROOT_CERT", "grpc-root-cert", "ArgStr"),
     Option("OPTION_GRPC_RESPONSE_COMPRESSION_LEVEL",
            "grpc-infer-response-compression-level", "ArgStr"),
     Option("OPTION_GRPC_ARG_KEEPALIVE_TIME_MS", "grpc-keepalive-time",
            "ArgInt"),
     Option("OPTION_GRPC_ARG_KEEPALIVE_TIMEOUT_MS", "grpc-keepalive-timeout",
            "ArgInt"),
     Option("OPTION_GRPC_ARG_KEEPALIVE_PERMIT_WITHOUT_CALLS",
            "grpc-keepalive-permit-without-calls", "ArgBool"),
     Option("OPTION_GRPC_ARG_HTTP2_MAX_PINGS_WITHOUT_DATA",
            "grpc-http2-max-pings-without-data", "ArgInt"),
     Option("OPTION_GRPC_ARG_HTTP2_MIN_RECV_PING_INTERVAL_WITHOUT_DATA_MS",
            "grpc-http2-min-recv-ping-interval-without-data", "ArgInt"),
     Option("OPTION_GRPC_ARG_HTTP2_MAX_PING_STRIKES",
            "grpc-http2-max-ping-strikes", "ArgInt"),
     Option("OPTION_ALLOW_SAGEMAKER", "allow-sagemaker", "ArgBool"),
     Option("OPTION_SAGEMAKER_PORT", "sagemaker-port", "ArgInt"),
     Option("OPTION_SAGEMAKER_SAFE_PORT_RANGE", "sagemaker-safe-port-range",
            "Custom"),
     Option("OPTION_SAGEMAKER_THREAD_COUNT", "sagemaker-thread-count",
            "ArgInt"),
     Option("OPTION_ALLOW_VERTEX_AI", "allow-vertex-ai", "ArgBool"),
     Option("OPTION_VERTEX_AI_PORT", "vertex-ai-port", "ArgInt"),
     Option("OPTION_VERTEX_AI_THREAD_COUNT", "vertex-ai-thread-count",
            "ArgInt"),
     Option("OPTION_VERTEX_AI_DEFAULT_MODEL", "vertex-ai-default-model",
            "ArgStr"),
     Option("OPTION_ALLOW_METRICS", "allow-metrics", "ArgBool"),
     Option("OPTION_ALLOW_GPU_METRICS", "allow-gpu-metrics", "ArgBool"),
     Option("OPTION_ALLOW_CPU_METRICS", "allow-cpu-metrics", "ArgBool"),
     Option("OPTION_METRICS_PORT", "metrics-port", "ArgInt"),
     Option("OPTION_METRICS_INTERVAL_MS", "metrics-interval-ms", "ArgFloat"),
     Option("OPTION_TRACE_FILEPATH", "trace-file", "ArgStr"),
     Option("OPTION_TRACE_LEVEL", "trace-level", "ArgStr"),
     Option("OPTION_TRACE_RATE", "trace-rate", "ArgInt"),
     Option("OPTION_TRACE_COUNT", "trace-count", "ArgInt"),
     Option("OPTION_TRACE_LOG_FREQUENCY", "trace-log-frequency", "ArgInt"),
     Option("OPTION_MODEL_CONTROL_MODE", "model-control-mode", "ArgStr"),
     Option("OPTION_POLL_REPO_SECS", "repository-poll-secs", "ArgInt"),
     Option("OPTION_STARTUP_MODEL", "load-model", "ArgStr"),
     Option("OPTION_RATE_LIMIT", "rate-limit", "ArgStr"),
     Option("OPTION_RATE_LIMIT_RESOURCE", "rate-limit-resource", "Custom"),
     Option("OPTION_PINNED_MEMORY_POOL_BYTE_SIZE",
            "pinned-memory-pool-byte-size", "ArgInt"),
     Option("OPTION_CUDA_MEMORY_POOL_BYTE_SIZE", "cuda-memory-pool-byte-size",
            "Custom"),
     Option("OPTION_RESPONSE_CACHE_BYTE_SIZE", "response-cache-byte-size",
            "ArgInt"),
     Option("OPTION_CACHE_CONFIG", "cache-config", "Custom"),
     Option("OPTION_CACHE_DIR", "cache-directory", "ArgStr"),
     Option("OPTION_MIN_SUPPORTED_COMPUTE_CAPABILITY",
            "min-supported-compute-capability", "ArgFloat"),
     Option("OPTION_EXIT_TIMEOUT_SECS", "exit-timeout-secs", "ArgInt"),
     Option("OPTION_BACKEND_DIR", "backend-directory", "ArgStr"),
     Option("OPTION_REPOAGENT_DIR", "repoagent-directory", "ArgStr"),
     Option("OPTION_BUFFER_MANAGER_THREAD_COUNT",
            "buffer-manager-thread-count", "ArgInt"),
     Option("OPTION_MODEL_LOAD_THREAD_COUNT", "model-load-thread-count",
            "ArgInt"),
     Option("OPTION_BACKEND_CONFIG", "backend-config", "Custom"),
     Option("OPTION_HOST_POLICY", "host-policy", "Custom"),
     Option("OPTION_MODEL_LOAD_GPU_LIMIT", "model-load-gpu-limit", "Custom"),
     Option("OPTION_MODEL_NAMESPACING", "model-namespacing", "ArgBool") >>

\* Option::GetLongOption: the descriptor handed to getopt_long; every kind
\* but ArgNone takes an argument
GetLongOption(o) ==
  [name_ |-> o.flag_,
   has_arg_ |-> IF o.kind_ = "ArgNone" THEN "no_argument"
                ELSE "required_argument",
   val_ |-> o.id_]

long_options ==
  [i \in DOMAIN recognized_options_ |-> GetLongOption(recognized_options_[i])]

\* argv[i], i counted from 0
ArgvAt(av, i) == av[i + 1]

\* what getopt_long returns: the flag ("-1", "?" or an option identifier),
\* the cursor and the argument it leaves behind, what it wrote to std::cerr
\* and the exception that left it
Scanned(flag, oi, oa, err, e) ==
  [flag |-> flag, optind |-> oi, optarg |-> oa, cerr |-> err, exception |-> e]

\* getopt_long with optarg left at the equals sign of an attached value
getopt_long_KeepsEqualsSign(av, oi, oa) ==
  IF oi >= Len(av) THEN Scanned("-1", oi, oa, <<>>, "none")
  ELSE
    LET argv_str == ArgvAt(av, oi)
        found == Find(argv_str, "=", 0)
        \* substr(2, n): position 2 must not lie behind the end; a count
        \* of found - 2 below zero is a huge size_t, the rest of the string
        key == IF found = npos \/ found < 2 THEN SubstrFrom(argv_str, 2)
               ELSE Substr(argv_str, 2, found - 2)
        matching == {i \in DOMAIN long_options : key = long_options[i].name_}
        curr_longopt ==
          long_options[CHOOSE i \in matching : \A j \in matching : i <= j]
    IN  IF Len(argv_str) < 2
          THEN Scanned("-1", oi, oa, <<>>, "std::out_of_range")
        ELSE IF matching = {} THEN Scanned("-1", oi, oa, <<>>, "none")
        ELSE IF curr_longopt.has_arg_ = "required_argument"
          THEN IF found = npos
                 THEN IF oi + 1 >= Len(av)
                        THEN Scanned("?", oi + 1, oa,
                               <<ArgvAt(av, 0) \o ": option '" \o argv_str
                                 \o "' requires an argument">>, "none")
                      ELSE Scanned(curr_longopt.val_, oi + 2,
                                   ArgvAt(av, oi + 1), <<>>, "none")
               ELSE Scanned(curr_longopt.val_, oi + 1,
                            SubstrFrom(argv_str, found), <<>>, "none")
        ELSE Scanned(curr_longopt.val_, oi + 1, oa, <<>>, "none")

\* getopt_long without the second optind++ behind a separate argument
getopt_long_ArgumentNotSkipped(av, oi, oa) ==
  IF oi >= Len(av) THEN Scanned("-1", oi, oa, <<>>, "none")
  ELSE
    LET argv_str == ArgvAt(av, oi)
        found == Find(argv_str, "=", 0)
        \* substr(2, n): position 2 must not lie behind the end; a count
        \* of found - 2 below zero is a huge size_t, the rest of the string
        key == IF found = npos \/ found < 2 THEN SubstrFrom(argv_str, 2)
               ELSE Substr(argv_str, 2, found - 2)
        matching == {i \in DOMAIN long_options : key = long_options[i].name_}
        curr_longopt ==
          long_options[CHOOSE i \in matching : \A j \in matching : i <= j]
    IN  IF Len(argv_str) < 2
          THEN Scanned("-1", oi, oa, <<>>, "std::out_of_range")
        ELSE IF matching = {} THEN Scanned("-1", oi, oa, <<>>, "none")
        ELSE IF curr_longopt.has_arg_ = "required_argument"
          THEN IF found = npos
                 THEN IF oi + 1 >= Len(av)
                        THEN Scanned("?", oi + 1, oa,
                               <<ArgvAt(av, 0) \o ": option '" \o argv_str
                                 \o "' requires an argument">>, "none")
                      ELSE Scanned(curr_longopt.val_, oi + 1,
                                   ArgvAt(av, oi + 1), <<>>, "none")
               ELSE Scanned(curr_longopt.val_, oi + 1,
                            SubstrFrom(argv_str, found + 1), <<>>, "none")
        ELSE Scanned(curr_longopt.val_, oi + 1, oa, <<>>, "none")

\* getopt_long, called with longindex = NULL
getopt_long(av, oi, oa) ==
  IF oi >= Len(av) THEN Scanned("-1", oi, oa, <<>>, "none")
  ELSE
    LET argv_str == ArgvAt(av, oi)
        found == Find(argv_str, "=", 0)
        \* substr(2, n): position 2 must not lie behind the end; a count
        \* of found - 2 below zero is a huge size_t, the rest of the string
        key == IF found = npos \/ found < 2 THEN SubstrFrom(argv_str, 2)
               ELSE Substr(argv_str, 2, found - 2)
        matching == {i \in DOMAIN long_options : key = long_options[i].name_}
        curr_longopt ==
          long_options[CHOOSE i \in matching : \A j \in matching : i <= j]
    IN  IF Len(argv_str) < 2
          THEN Scanned("-1", oi, oa, <<>>, "std::out_of_range")
        ELSE IF matching = {} THEN Scanned("-1", oi, oa, <<>>, "none")
        ELSE IF curr_longopt.has_arg_ = "required_argument"
          THEN IF found = npos
                 THEN IF oi + 1 >= Len(av)
                        THEN Scanned("?", oi + 1, oa,
                               <<ArgvAt(av, 0) \o ": option '" \o argv_str
                                 \o "' requires an argument">>, "none")
                      ELSE Scanned(curr_longopt.val_, oi + 2,
                                   ArgvAt(av, oi + 1), <<>>, "none")
               ELSE Scanned(curr_longopt.val_, oi + 1,
                            SubstrFrom(argv_str, found + 1), <<>>, "none")
        ELSE Scanned(curr_longopt.val_, oi + 1, oa, <<>>, "none")

\* ParseIntBoolOption
ParseIntBoolOption(a) ==
  LET larg == ToLower(a)
  IN  IF larg = "true" THEN Ok(1)
      ELSE IF larg = "false" THEN Ok(0)
      ELSE ParseOptionInt(larg)

\* ParseTraceLevelOption; a trace level is the set of its bits, DISABLED
\* the empty one
ParseTraceLevelOption(a) ==
  LET larg == ToLower(a)
  IN  IF larg = "false" \/ larg = "off" THEN Ok({})
      ELSE IF larg \in {"true", "on", "min", "max", "timestamps"}
        THEN Ok({"TRITONSERVER_TRACE_LEVEL_TIMESTAMPS"})
      ELSE IF larg = "tensors" THEN Ok({"TRITONSERVER_TRACE_LEVEL_TENSORS"})
      ELSE Throw("ParseException")

\* the value of an environment variable: <<>> when unset
GetEnvironmentVariableOrDefault(e, variable_name, default_value) ==
  IF e[variable_name] = <<>> THEN default_value ELSE e[variable_name][1]

\* m[k] = v of a std::map
MapAssign(m, k, v) ==
  [x \in DOMAIN m \cup {k} |-> IF x = k THEN v ELSE m[x]]

\* m[k] of a std::map, which inserts an empty value for a new key
MapAt(m, k) == IF k \in DOMAIN m THEN m[k] ELSE <<>>

\* m.emplace(k, v) of a std::map: an existing key keeps its value
MapEmplace(m, k, v) == IF k \in DOMAIN m THEN m ELSE MapAssign(m, k, v)

\* a default-constructed TritonServerParameters
DefaultParameters ==
  [log_verbose_ |-> 0, log_info_ |-> TRUE, log_warn_ |-> TRUE,
   log_error_ |-> TRUE, log_format_ |-> "kDEFAULT", log_file_ |-> "",
   server_id_ |-> "triton", model_repository_paths_ |-> {},
   exit_on_error_ |-> TRUE, strict_model_config_ |-> FALSE,
   strict_readiness_ |-> TRUE,
   allow_http_ |-> TRUE, http_address_ |-> "0.0.0.0", http_port_ |-> 8000,
   reuse_http_port_ |-> FALSE, http_thread_cnt_ |-> 8,
   allow_grpc_ |-> TRUE, grpc_address_ |-> "0.0.0.0", grpc_port_ |-> 8001,
   grpc_reuse_port_ |-> FALSE, grpc_infer_allocation_pool_size_ |-> 8,
   grpc_use_ssl_ |-> FALSE, grpc_use_mutual_auth_ |-> FALSE,
   grpc_server_cert_ |-> "", grpc_server_key_ |-> "", grpc_root_cert_ |-> "",
   grpc_infer_compression_level_ |-> "GRPC_COMPRESS_LEVEL_NONE",
   grpc_keepalive_time_ms_ |-> 7200000, grpc_keepalive_timeout_ms_ |-> 20000,
   grpc_keepalive_permit_without_calls_ |-> FALSE,
   grpc_http2_max_pings_without_data_ |-> 2,
   grpc_http2_min_recv_ping_interval_without_data_ms_ |-> 300000,
   grpc_http2_max_ping_strikes_ |-> 2,
   allow_sagemaker_ |-> FALSE, sagemaker_address_ |-> "0.0.0.0",
   sagemaker_port_ |-> 8080, sagemaker_safe_range_set_ |-> FALSE,
   sagemaker_safe_range_ |-> <<-1, -1>>, sagemaker_thread_cnt_ |-> 8,
   allow_vertex_ai_ |-> FALSE, vertex_ai_address_ |-> "0.0.0.0",
   vertex_ai_port_ |-> 8080, vertex_ai_thread_cnt_ |-> 8,
   vertex_ai_default_model_ |-> "",
   allow_metrics_ |-> TRUE, allow_gpu_metrics_ |-> TRUE,
   allow_cpu_metrics_ |-> TRUE, metrics_address_ |-> "0.0.0.0",
   metrics_port_ |-> 8002, metrics_interval_ms_ |-> 2000,
   trace_filepath_ |-> "", trace_level_ |-> {}, trace_rate_ |-> 1000,
   trace_count_ |-> -1, trace_log_frequency_ |-> 0,
   control_mode_ |-> "TRITONSERVER_MODEL_CONTROL_NONE",
   repository_poll_secs_ |-> 15, startup_models_ |-> {},
   rate_limit_mode_ |-> "TRITONSERVER_RATE_LIMIT_OFF",
   rate_limit_resources_ |-> <<>>,
   pinned_memory_pool_byte_size_ |-> "268435456", cuda_pools_ |-> <<>>,
   cache_config_settings_ |-> <<>>, cache_dir_ |-> "/opt/tritonserver/caches",
   enable_cache_ |-> FALSE,
   min_supported_compute_capability_ |->
     [neg |-> FALSE, whole |-> "6", frac |-> ""],
   exit_timeout_secs_ |-> 30,
   backend_dir_ |-> "/opt/tritonserver/backends",
   repoagent_dir_ |-> "/opt/tritonserver/repoagents",
   buffer_manager_thread_count_ |-> 0, model_load_thread_count_ |-> 4,
   backend_config_settings_ |-> <<>>, host_policies_ |-> <<>>,
   load_gpu_limit_ |-> <<>>, enable_model_namespacing_ |-> FALSE]

(***************************************************************************)
(* TritonParser::Parse                                                     *)
(***************************************************************************)
NoException == [exception |-> "none"]

\* a ParseException thrown by Parse itself, with its message
ParseException(what) ==
  [exception |-> "ParseException", by |-> "Parse", what |-> what]

\* the exception a value parser left with, passing through Parse; its
\* message is not kept
Propagated(r) == [exception |-> r.status, by |-> "value parser", what |-> ""]

\* Parse after one step: the parameters, the local flags, std::cerr and the
\* exception that ended it
Continue(lp, lc, ce) ==
  [lparams |-> lp, locals |-> lc, cerr |-> ce, thrown |-> NoException]

\* an exception that does not end Parse
Leave_Swallowed(lp, lc, ce, e) == Continue(lp, lc, ce)

Leave(lp, lc, ce, e) ==
  [lparams |-> lp, locals |-> lc, cerr |-> ce, thrown |-> e]

StrictModelConfigWarning ==
  "Warning: '--strict-model-config' has been deprecated! "
  \o "Please use '--disable-auto-complete-config' instead."

ResponseCacheByteSizeWarning(byte_size) ==
  "Warning: '--response-cache-byte-size' has been deprecated! "
  \o "This will default to the 'local' cache implementation with "
  \o "the provided byte size for its config. Please use "
  \o "'--cache-config' instead. The equivalent "
  \o "--cache-config CLI args would be: "
  \o "'--cache-config=local,size=" \o byte_size \o "'"

\* the cases of the switch that store one value in one field: the field,
\* and the conversion of optarg ("optarg" for the string itself, the type
\* parameter for ParseOption<T>; "int as bool" where ParseOption<int> is
\* assigned to a bool field)
Stores ==
  [OPTION_LOG_VERBOSE |-> <<"log_verbose_", "ParseIntBoolOption">>,
   OPTION_LOG_INFO |-> <<"log_info_", "bool">>,
   OPTION_LOG_WARNING |-> <<"log_warn_", "bool">>,
   OPTION_LOG_ERROR |-> <<"log_error_", "bool">>,
   OPTION_LOG_FILE |-> <<"log_file_", "optarg">>,
   OPTION_ID |-> <<"server_id_", "optarg">>,
   OPTION_EXIT_ON_ERROR |-> <<"exit_on_error_", "bool">>,
   OPTION_STRICT_READINESS |-> <<"strict_readiness_", "bool">>,
   OPTION_ALLOW_HTTP |-> <<"allow_http_", "bool">>,
   OPTION_HTTP_PORT |-> <<"http_port_", "int">>,
   OPTION_REUSE_HTTP_PORT |-> <<"reuse_http_port_", "int as bool">>,
   OPTION_HTTP_THREAD_COUNT |-> <<"http_thread_cnt_", "int">>,
   OPTION_ALLOW_SAGEMAKER |-> <<"allow_sagemaker_", "bool">>,
   OPTION_SAGEMAKER_PORT |-> <<"sagemaker_port_", "int">>,
   OPTION_SAGEMAKER_THREAD_COUNT |-> <<"sagemaker_thread_cnt_", "int">>,
   OPTION_ALLOW_VERTEX_AI |-> <<"allow_vertex_ai_", "bool">>,
   OPTION_VERTEX_AI_PORT |-> <<"vertex_ai_port_", "int">>,
   OPTION_VERTEX_AI_THREAD_COUNT |-> <<"vertex_ai_thread_cnt_", "int">>,
   OPTION_VERTEX_AI_DEFAULT_MODEL |-> <<"vertex_ai_default_model_", "optarg">>,
   OPTION_ALLOW_GRPC |-> <<"allow_grpc_", "bool">>,
   OPTION_GRPC_PORT |-> <<"grpc_port_", "int">>,
   OPTION_REUSE_GRPC_PORT |-> <<"grpc_reuse_port_", "int as bool">>,
   OPTION_GRPC_ADDRESS |-> <<"grpc_address_", "optarg">>,
   OPTION_GRPC_INFER_ALLOCATION_POOL_SIZE |->
     <<"grpc_infer_allocation_pool_size_", "int">>,
   OPTION_GRPC_USE_SSL |-> <<"grpc_use_ssl_", "bool">>,
   OPTION_GRPC_SERVER_CERT |-> <<"grpc_server_cert_", "optarg">>,
   OPTION_GRPC_SERVER_KEY |-> <<"grpc_server_key_", "optarg">>,
   OPTION_GRPC_ROOT_CERT |-> <<"grpc_root_cert_", "optarg">>,
   OPTION_GRPC_ARG_KEEPALIVE_TIME_MS |-> <<"grpc_keepalive_time_ms_", "int">>,
   OPTION_GRPC_ARG_KEEPALIVE_TIMEOUT_MS |->
     <<"grpc_keepalive_timeout_ms_", "int">>,
   OPTION_GRPC_ARG_KEEPALIVE_PERMIT_WITHOUT_CALLS |->
     <<"grpc_keepalive_permit_without_calls_", "bool">>,
   OPTION_GRPC_ARG_HTTP2_MAX_PINGS_WITHOUT_DATA |->
     <<"grpc_http2_max_pings_without_data_", "int">>,
   OPTION_GRPC_ARG_HTTP2_MIN_RECV_PING_INTERVAL_WITHOUT_DATA_MS |->
     <<"grpc_http2_min_recv_ping_interval_without_data_ms_", "int">>,
   OPTION_GRPC_ARG_HTTP2_MAX_PING_STRIKES |->
     <<"grpc_http2_max_ping_strikes_", "int">>,
   OPTION_ALLOW_METRICS |-> <<"allow_metrics_", "bool">>,
   OPTION_ALLOW_GPU_METRICS |-> <<"allow_gpu_metrics_", "bool">>,
   OPTION_ALLOW_CPU_METRICS |-> <<"allow_cpu_metrics_", "bool">>,
   OPTION_METRICS_PORT |-> <<"metrics_port_", "int">>,
   OPTION_METRICS_INTERVAL_MS |-> <<"metrics_interval_ms_", "int">>,
   OPTION_TRACE_FILEPATH |-> <<"trace_filepath_", "optarg">>,
   OPTION_TRACE_RATE |-> <<"trace_rate_", "int">>,
   OPTION_TRACE_COUNT |-> <<"trace_count_", "int">>,
   OPTION_TRACE_LOG_FREQUENCY |-> <<"trace_log_frequency_", "int">>,
   OPTION_POLL_REPO_SECS |-> <<"repository_poll_secs_", "int">>,
   OPTION_PINNED_MEMORY_POOL_BYTE_SIZE |->
     <<"pinned_memory_pool_byte_size_", "int64_t">>,
   OPTION_CACHE_DIR |-> <<"cache_dir_", "optarg">>,
   OPTION_MIN_SUPPORTED_COMPUTE_CAPABILITY |->
     <<"min_supported_compute_capability_", "double">>,
   OPTION_EXIT_TIMEOUT_SECS |-> <<"exit_timeout_secs_", "int">>,
   OPTION_BACKEND_DIR |-> <<"backend_dir_", "optarg">>,
   OPTION_REPOAGENT_DIR |-> <<"repoagent_dir_", "optarg">>,
   OPTION_BUFFER_MANAGER_THREAD_COUNT |->
     <<"buffer_manager_thread_count_", "int">>,
   OPTION_MODEL_LOAD_THREAD_COUNT |-> <<"model_load_thread_count_", "int">>,
   OPTION_MODEL_NAMESPACING |-> <<"enable_model_namespacing_", "bool">>]

\* the cases that choose a value by the word given: the field, whether the
\* word is lowered first, the words and the message for any other word
Words ==
  [OPTION_LOG_FORMAT |->
     [field |-> "log_format_", lower |-> FALSE,
      words |-> [default |-> "kDEFAULT", ISO8601 |-> "kISO8601"],
      what |-> "invalid argument for --log-format"],
   OPTION_GRPC_RESPONSE_COMPRESSION_LEVEL |->
     [field |-> "grpc_infer_compression_level_", lower |-> TRUE,
      words |-> [none |-> "GRPC_COMPRESS_LEVEL_NONE",
                 low |-> "GRPC_COMPRESS_LEVEL_LOW",
                 medium |-> "GRPC_COMPRESS_LEVEL_MED",
                 high |-> "GRPC_COMPRESS_LEVEL_HIGH"],
      what |-> "invalid argument for --grpc_infer_response_compression_level"],
   OPTION_MODEL_CONTROL_MODE |->
     [field |-> "control_mode_", lower |-> TRUE,
      words |-> [none |-> "TRITONSERVER_MODEL_CONTROL_NONE",
                 poll |-> "TRITONSERVER_MODEL_CONTROL_POLL",
                 explicit |-> "TRITONSERVER_MODEL_CONTROL_EXPLICIT"],
      what |-> "invalid argument for --model-control-mode"],
   OPTION_RATE_LIMIT |->
     [field |-> "rate_limit_mode_", lower |-> TRUE,
      words |-> [execution_count |-> "TRITONSERVER_RATE_LIMIT_EXEC_COUNT",
                 off |-> "TRITONSERVER_RATE_LIMIT_OFF"],
      what |-> "invalid argument for --rate-limit"]]

\* the cases that call a compound parser: the parser, with its type
\* parameters and delimiter where it has them
Compounds ==
  [OPTION_SAGEMAKER_SAFE_PORT_RANGE |-> <<"ParsePairOption", "int", "int", "-">>,
   OPTION_CUDA_MEMORY_POOL_BYTE_SIZE |->
     <<"ParsePairOption", "int", "uint64_t", ":">>,
   OPTION_MODEL_LOAD_GPU_LIMIT |-> <<"ParsePairOption", "int", "double", ":">>,
   OPTION_CACHE_CONFIG |-> <<"ParseCacheConfigOption">>,
   OPTION_BACKEND_CONFIG |-> <<"ParseBackendConfigOption">>,
   OPTION_HOST_POLICY |-> <<"ParseHostPolicyOption">>,
   OPTION_RATE_LIMIT_RESOURCE |-> <<"ParseRateLimiterResourceOption">>,
   OPTION_TRACE_LEVEL |-> <<"ParseTraceLevelOption">>,
   OPTION_RESPONSE_CACHE_BYTE_SIZE |-> <<"ParseOption", "int64_t">>,
   OPTION_STRICT_MODEL_CONFIG |-> <<"ParseOption", "bool">>,
   OPTION_GRPC_USE_SSL_MUTUAL |-> <<"ParseOption", "bool">>]

\* the value a conversion of optarg yields
Converted(how, oa) ==
  CASE how = "optarg" -> Ok(oa)
    [] how = "ParseIntBoolOption" -> ParseIntBoolOption(oa)
    [] how = "int as bool" ->
         LET r == ParseOptionInt(oa)
         IN  IF IsOk(r) THEN Ok(ValueOf(r) # 0) ELSE r
    [] OTHER -> ParseOption(how, oa)

\* the value the parser of a compound case yields
Compound(c, oa) ==
  CASE c[1] = "ParsePairOption" -> ParsePairOption(c[2], c[3], oa, c[4])
    [] c[1] = "ParseCacheConfigOption" -> ParseCacheConfigOption(oa)
    [] c[1] = "ParseBackendConfigOption" -> ParseBackendConfigOption(oa)
    [] c[1] = "ParseHostPolicyOption" -> ParseHostPolicyOption(oa)
    [] c[1] = "ParseRateLimiterResourceOption" ->
         ParseRateLimiterResourceOption(oa)
    [] c[1] = "ParseTraceLevelOption" -> ParseTraceLevelOption(oa)
    [] c[1] = "ParseOption" -> ParseOption(c[2], oa)

\* cuda_pools_ with the earlier entries of the device of v dropped
push_back_Overwriting(pools, v) ==
  Append(SelectSeq(pools, LAMBDA p : p[1] # v[1]), v)

\* cuda_pools_.push_back
push_back(pools, v) == Append(pools, v)

\* the cases of the switch that call a compound parser or keep a marker:
\* r is what the parser yields for optarg
SwitchCompound(flag, oa, r, lp, lc, ce) ==
  LET v == ValueOf(r) IN
  CASE flag = "OPTION_STRICT_MODEL_CONFIG" ->
           \* the warning and the marker come before the value is parsed
           LET lc1 == [lc EXCEPT !.strict_model_config_present = TRUE]
               ce1 == Append(ce, StrictModelConfigWarning)
           IN  IF IsOk(r)
                 THEN Continue([lp EXCEPT !.strict_model_config_ = v],
                               lc1, ce1)
               ELSE Leave(lp, lc1, ce1, Propagated(r))
      [] flag = "OPTION_SAGEMAKER_SAFE_PORT_RANGE" ->
           \* the range counts as set before its bounds are parsed
           LET lp1 == [lp EXCEPT !.sagemaker_safe_range_set_ = TRUE]
           IN  IF IsOk(r)
                 THEN Continue([lp1 EXCEPT !.sagemaker_safe_range_ = v],
                               lc, ce)
               ELSE Leave(lp1, lc, ce, Propagated(r))
      [] flag = "OPTION_GRPC_USE_SSL_MUTUAL" ->
           IF IsOk(r)
             THEN Continue([lp EXCEPT !.grpc_use_mutual_auth_ = v,
                                      !.grpc_use_ssl_ = TRUE], lc, ce)
           ELSE Leave(lp, lc, ce, Propagated(r))
      [] flag = "OPTION_TRACE_LEVEL" ->
           IF IsOk(r)
             THEN Continue(
                    [lp EXCEPT !.trace_level_ = @ \cup v],
                    [lc EXCEPT !.explicit_disable_trace = @ \/ v = {}], ce)
           ELSE Leave(lp, lc, ce, Propagated(r))
      [] flag = "OPTION_RATE_LIMIT_RESOURCE" ->
           \* the parser is given optarg, not the lowered copy, and only
           \* std::invalid_argument is caught and rethrown
           IF IsOk(r)
             THEN Continue(
                    [lp EXCEPT !.rate_limit_resources_ = Append(@, v)],
                    lc, ce)
           ELSE IF r.status = "std::invalid_argument"
             THEN Leave(lp, lc, ce,
                    ParseException("failed to parse '" \o oa
                                   \o "' as <str>:<int>:<int>"))
           ELSE Leave(lp, lc, ce, Propagated(r))
      [] flag = "OPTION_CUDA_MEMORY_POOL_BYTE_SIZE" ->
           IF IsOk(r)
             THEN Continue([lp EXCEPT !.cuda_pools_ = push_back(@, v)], lc, ce)
           ELSE Leave(lp, lc, ce, Propagated(r))
      [] flag = "OPTION_RESPONSE_CACHE_BYTE_SIZE" ->
           \* byte_size is std::to_string of the parsed value
           LET lc1 == [lc EXCEPT !.cache_size_present = TRUE]
           IN  IF IsOk(r)
                 THEN Continue(
                        [lp EXCEPT !.cache_config_settings_ =
                           MapAssign(@, "local", << <<"size", v>> >>)],
                        lc1, Append(ce, ResponseCacheByteSizeWarning(v)))
               ELSE Leave(lp, lc1, ce, Propagated(r))
      [] flag = "OPTION_CACHE_CONFIG" ->
           LET lc1 == [lc EXCEPT !.cache_config_present = TRUE]
           IN  IF IsOk(r)
                 THEN Continue(
                        [lp EXCEPT !.cache_config_settings_ =
                           MapAssign(@, v[1],
                             Append(MapAt(@, v[1]), <<v[2], v[3]>>))],
                        lc1, ce)
               ELSE Leave(lp, lc1, ce, Propagated(r))
      [] flag = "OPTION_BACKEND_CONFIG" ->
           IF IsOk(r)
             THEN Continue(
                    [lp EXCEPT !.backend_config_settings_ = Append(@, v)],
                    lc, ce)
           ELSE Leave(lp, lc, ce, Propagated(r))
      [] flag = "OPTION_HOST_POLICY" ->
           IF IsOk(r)
             THEN Continue([lp EXCEPT !.host_policies_ = Append(@, v)],
                           lc, ce)
           ELSE Leave(lp, lc, ce, Propagated(r))
      [] flag = "OPTION_MODEL_LOAD_GPU_LIMIT" ->
           IF IsOk(r)
             THEN Continue(
                    [lp EXCEPT !.load_gpu_limit_ = MapEmplace(@, v[1], v[2])],
                    lc, ce)
           ELSE Leave(lp, lc, ce, Propagated(r))

\* the switch with a stored field written only while it holds its default
Switch_FirstOccurrenceWins(flag, oa, lp, lc, ce) ==
  IF flag \in {"OPTION_HELP", "?"} THEN Leave(lp, lc, ce, ParseException(""))
  ELSE IF flag \in DOMAIN Stores
    THEN LET r == Converted(Stores[flag][2], oa)
         IN  IF IsOk(r)
               THEN IF lp[Stores[flag][1]] # DefaultParameters[Stores[flag][1]]
                      THEN Continue(lp, lc, ce)
                    ELSE Continue([lp EXCEPT ![Stores[flag][1]] = ValueOf(r)],
                                  lc, ce)
             ELSE Leave(lp, lc, ce, Propagated(r))
  ELSE IF flag \in DOMAIN Words
    THEN LET w == Words[flag]
             mode_str == IF w.lower THEN ToLower(oa) ELSE oa
         IN  IF mode_str \in DOMAIN w.words
               THEN Continue([lp EXCEPT ![w.field] = w.words[mode_str]], lc, ce)
             ELSE Leave(lp, lc, ce, ParseException(w.what))
  ELSE IF flag = "OPTION_MODEL_REPOSITORY"
    THEN Continue([lp EXCEPT !.model_repository_paths_ = @ \cup {oa}], lc, ce)
  ELSE IF flag = "OPTION_STARTUP_MODEL"
    THEN Continue([lp EXCEPT !.startup_models_ = @ \cup {oa}], lc, ce)
  ELSE IF flag = "OPTION_HTTP_ADDRESS"
    THEN Continue([lp EXCEPT !.http_address_ = oa, !.metrics_address_ = oa],
                  lc, ce)
  ELSE IF flag = "OPTION_DISABLE_AUTO_COMPLETE_CONFIG"
    THEN Continue(lp, [lc EXCEPT !.disable_auto_complete_config = TRUE], ce)
  ELSE IF flag \in DOMAIN Compounds
    THEN SwitchCompound(flag, oa, Compound(Compounds[flag], oa), lp, lc, ce)
  ELSE Continue(lp, lc, ce)

\* the switch of the scan loop for one option: flag is what getopt_long
\* returned, oa is optarg
Switch(flag, oa, lp, lc, ce) ==
  IF flag \in {"OPTION_HELP", "?"} THEN Leave(lp, lc, ce, ParseException(""))
  ELSE IF flag \in DOMAIN Stores
    THEN LET r == Converted(Stores[flag][2], oa)
         IN  IF IsOk(r)
               THEN Continue([lp EXCEPT ![Stores[flag][1]] = ValueOf(r)], lc, ce)
             ELSE Leave(lp, lc, ce, Propagated(r))
  ELSE IF flag \in DOMAIN Words
    THEN LET w == Words[flag]
             mode_str == IF w.lower THEN ToLower(oa) ELSE oa
         IN  IF mode_str \in DOMAIN w.words
               THEN Continue([lp EXCEPT ![w.field] = w.words[mode_str]], lc, ce)
             ELSE Leave(lp, lc, ce, ParseException(w.what))
  ELSE IF flag = "OPTION_MODEL_REPOSITORY"
    THEN Continue([lp EXCEPT !.model_repository_paths_ = @ \cup {oa}], lc, ce)
  ELSE IF flag = "OPTION_STARTUP_MODEL"
    THEN Continue([lp EXCEPT !.startup_models_ = @ \cup {oa}], lc, ce)
  ELSE IF flag = "OPTION_HTTP_ADDRESS"
    THEN Continue([lp EXCEPT !.http_address_ = oa, !.metrics_address_ = oa],
                  lc, ce)
  ELSE IF flag = "OPTION_DISABLE_AUTO_COMPLETE_CONFIG"
    THEN Continue(lp, [lc EXCEPT !.disable_auto_complete_config = TRUE], ce)
  ELSE IF flag \in DOMAIN Compounds
    THEN SwitchCompound(flag, oa, Compound(Compounds[flag], oa), lp, lc, ce)
  ELSE Continue(lp, lc, ce)

OverrideWarning ==
  "Warning: Overriding deprecated '--strict-model-config' from "
  \o "False to True in favor of '--disable-auto-complete-config'!"

IncompatibleCacheFlags ==
  "Error: Incompatible flags --response-cache-byte-size and "
  \o "--cache-config both provided. Please provide one or the other."

\* the cache flag check left out
CacheFlagsConflict_Never(lc) == FALSE

\* the cache flag check with || for &&
CacheFlagsConflict_Either(lc) ==
  lc.cache_size_present \/ lc.cache_config_present

\* the condition of the last check of Parse
CacheFlagsConflict(lc) == lc.cache_size_present /\ lc.cache_config_present

\* the poll interval left as it was given
ResetPollSecs_Never(lp) == lp

\* the poll interval outside of poll mode
ResetPollSecs(lp) ==
  IF lp.control_mode_ # "TRITONSERVER_MODEL_CONTROL_POLL"
    THEN [lp EXCEPT !.repository_poll_secs_ = 0]
  ELSE lp

\* AIP_STORAGE_URI not looked at
DefaultRepository_Never(lp, e) == lp

\* the default model repository
DefaultRepository(lp, e) ==
  LET aip_storage_uri ==
        GetEnvironmentVariableOrDefault(e, "AIP_STORAGE_URI", "")
  IN  IF lp.model_repository_paths_ = {} /\ aip_storage_uri # ""
        THEN [lp EXCEPT !.model_repository_paths_ = {aip_storage_uri}]
      ELSE lp

\* the metrics flags left as they were given
MaskMetrics_Never(lp) == lp

\* allow_gpu_metrics_ &= allow_metrics_, allow_cpu_metrics_ &= allow_metrics_
MaskMetrics(lp) ==
  [lp EXCEPT !.allow_gpu_metrics_ = @ /\ lp.allow_metrics_,
             !.allow_cpu_metrics_ = @ /\ lp.allow_metrics_]

\* the trace level left as the flags accumulated it
DisableTrace_Never(lp, lc) == lp

\* the trace level after an explicit disable
DisableTrace(lp, lc) ==
  IF lc.explicit_disable_trace THEN [lp EXCEPT !.trace_level_ = {}]
  ELSE lp

\* strict_model_config_ left as --strict-model-config set it
OverrideStrictModelConfig_Never(lp, lc) == lp

\* strict_model_config_ under --disable-auto-complete-config
OverrideStrictModelConfig(lp, lc) ==
  IF lc.disable_auto_complete_config
    THEN [lp EXCEPT !.strict_model_config_ = TRUE]
  ELSE lp

\* Step 3 of Parse, from the poll interval to the return statement
PostParseValidation(lp, lc, ce, e) ==
  LET lp4 == DisableTrace(
               MaskMetrics(DefaultRepository(ResetPollSecs(lp), e)), lc)
      ce5 == IF /\ lc.disable_auto_complete_config
                /\ lc.strict_model_config_present
                /\ ~lp4.strict_model_config_
               THEN Append(ce, OverrideWarning)
             ELSE ce
      lp5 == OverrideStrictModelConfig(lp4, lc)
  IN  IF CacheFlagsConflict(lc)
        THEN Leave(lp5, lc, ce5, ParseException(IncompatibleCacheFlags))
      ELSE Continue(
        [lp5 EXCEPT !.enable_cache_ =
                      lc.cache_size_present \/ lc.cache_config_present],
        lc, ce5)

\* the environments: the three variables Parse reads, each unset or set
Unset == <<>>

Environments ==
  [AIP_MODE : {Unset, <<"PREDICTION">>},
   AIP_HTTP_PORT : {Unset, <<"8000">>},
   AIP_STORAGE_URI : {Unset, <<"gs://models">>}]

\* the token lists: every list of up to MaxArgs tokens of one family,
\* behind the program name
PortTokens ==
  {"--http-port=8001", "--grpc-port", "8001", "--allow-grpc=false",
   "--http-address=127.0.0.1", "--allow-sagemaker=on",
   "--sagemaker-safe-port-range=8000-8001"}

CacheTokens ==
  {"--response-cache-byte-size=1", "--cache-config", "local,size=1",
   "--cache-config=size=1", "--disable-auto-complete-config", "--help", "x"}

ScanTokens ==
  {"--id=a", "--id", "a", "--ID=a", "--i=a", "xxid=a", "x"}

ModelTokens ==
  {"--load-model=a", "--load-model=b", "--model-repository=/n",
   "--model-store", "/m", "--allow-vertex-ai=true"}

SingleTokens ==
  {"--id=a", "--id=b", "--http-port=8001", "--rate-limit=off",
   "--rate-limit=execution_count", "--grpc-use-ssl=false",
   "--grpc-use-ssl-mutual=false"}

SslTokens ==
  {"--grpc-use-ssl=false", "--grpc-use-ssl=true",
   "--grpc-use-ssl-mutual=true", "--grpc-use-ssl-mutual=false"}

KindTokens ==
  {"--reuse-http-port=true", "--reuse-http-port=2", "--reuse-grpc-port=on",
   "--reuse-grpc-port=0", "--metrics-interval-ms=1.4",
   "--metrics-interval-ms=3", "--min-supported-compute-capability=7.5"}

PollTokens ==
  {"--model-control-mode=poll", "--model-control-mode=POLL",
   "--model-control-mode=explicit", "--repository-poll-secs=5",
   "--repository-poll-secs", "7"}

MetricsTokens ==
  {"--allow-metrics=false", "--allow-metrics=true", "--allow-gpu-metrics=true",
   "--allow-gpu-metrics=false", "--allow-cpu-metrics=true"}

TraceTokens ==
  {"--trace-level=OFF", "--trace-level=false", "--trace-level=TIMESTAMPS",
   "--trace-level=TENSORS", "--trace-level", "max"}

StrictTokens ==
  {"--disable-auto-complete-config", "--strict-model-config=false",
   "--strict-model-config=TRUE", "--strict-model-config", "0"}

ErrorTokens ==
  {"--http-port=x", "--http-port=99999999999", "--rate-limit-resource=a:x",
   "--rate-limit-resource=a:99999999999", "--rate-limit-resource=GPU:1",
   "--rate-limit-resource=gpu:1", "--id"}

PoolTokens ==
  {"--cuda-memory-pool-byte-size=0:1", "--cuda-memory-pool-byte-size=0:2",
   "--cuda-memory-pool-byte-size=1:4", "--cuda-memory-pool-byte-size", "0:4"}

TokenFamilies ==
  {PortTokens, CacheTokens, ScanTokens, ModelTokens, SingleTokens,
   PollTokens, MetricsTokens, TraceTokens, StrictTokens, ErrorTokens,
   PoolTokens, SslTokens, KindTokens}

RECURSIVE Lists(_, _)
Lists(tokens, n) ==
  IF n = 0 THEN {<<>>}
  ELSE LET shorter == Lists(tokens, n - 1)
       IN  shorter \cup {Append(l, t) : l \in shorter, t \in tokens}

ArgumentLists(family) ==
  {<<"tritonserver">> \o l : l \in Lists(family, MaxArgs)}

\* the environments a family is run in: the variables that bear on what
\* its flags set are set or unset, the others unset
EnvironmentsOf(family) ==
  {e \in Environments :
     /\ family # PortTokens => e.AIP_HTTP_PORT = Unset
     /\ family \notin {PortTokens, ModelTokens} => e.AIP_MODE = Unset
     /\ family # ModelTokens => e.AIP_STORAGE_URI = Unset}

InitParse ==
  /\ \E family \in TokenFamilies :
       /\ env \in EnvironmentsOf(family)
       /\ argv \in ArgumentLists(family)
  /\ optind = 1
  /\ optarg = ""
  /\ lparams = <<>>
  /\ locals = <<>>
  /\ cerr = <<>>
  /\ pc = "idle"
  /\ thrown = NoException
  /\ arg = ""
  /\ ret = NoCall
  /\ check = NotChecked

\* Step 1 of Parse: the parameters and local flags as constructed, and the
\* defaults taken from the environment
ParseBegin ==
  /\ pc = "idle"
  /\ LET aip_mode == GetEnvironmentVariableOrDefault(env, "AIP_MODE", "")
         port == GetEnvironmentVariableOrDefault(env, "AIP_HTTP_PORT", "8080")
         lp1 == IF aip_mode = "PREDICTION"
                  THEN [DefaultParameters EXCEPT !.allow_vertex_ai_ = TRUE,
                                                 !.allow_http_ = FALSE,
                                                 !.allow_grpc_ = FALSE]
                ELSE DefaultParameters
         r == ParseOptionInt(port)
     IN  /\ locals' = [strict_model_config_present |-> FALSE,
                       disable_auto_complete_config |-> FALSE,
                       cache_size_present |-> FALSE,
                       cache_config_present |-> FALSE,
                       explicit_disable_trace |-> FALSE]
         /\ IF IsOk(r)
              THEN /\ lparams' = [lp1 EXCEPT !.vertex_ai_port_ = ValueOf(r)]
                   /\ pc' = "scan"
                   /\ thrown' = NoException
            ELSE /\ lparams' = lp1
                 /\ pc' = "thrown"
                 /\ thrown' = Propagated(r)
  /\ UNCHANGED <<env, argv, optind, optarg, cerr, arg, ret, check>>

\* one turn of the scan loop: getopt_long, then the switch on what it
\* returned; when it returns -1, the check for a token left unread
ScanOption ==
  /\ pc = "scan"
  /\ \E g \in {getopt_long(argv, optind, optarg)} :
       IF g.exception # "none"
         THEN /\ pc' = "thrown"
              /\ thrown' = [exception |-> g.exception, by |-> "getopt_long",
                            what |-> ""]
              /\ UNCHANGED <<optind, optarg, lparams, locals, cerr>>
       ELSE IF g.flag = "-1"
         THEN /\ IF optind < Len(argv)
                   THEN /\ pc' = "thrown"
                        /\ thrown' = ParseException("Unexpected argument: "
                                       \o ArgvAt(argv, optind))
                 ELSE /\ pc' = "validate"
                      /\ thrown' = thrown
              /\ UNCHANGED <<optind, optarg, lparams, locals, cerr>>
       ELSE \E s \in {Switch(g.flag, g.optarg, lparams, locals,
                             cerr \o g.cerr)} :
              /\ optind' = g.optind
              /\ optarg' = g.optarg
              /\ lparams' = s.lparams
              /\ locals' = s.locals
              /\ cerr' = s.cerr
              /\ thrown' = s.thrown
              /\ pc' = IF s.thrown = NoException THEN "scan" ELSE "thrown"
  /\ UNCHANGED <<env, argv, arg, ret, check>>

\* Step 3 of Parse and its return
Validate ==
  /\ pc = "validate"
  /\ LET s == PostParseValidation(lparams, locals, cerr, env)
     IN  /\ lparams' = s.lparams
         /\ cerr' = s.cerr
         /\ thrown' = IF s.thrown = NoException THEN NoException
                      ELSE [s.thrown EXCEPT !.by = "validation"]
         /\ pc' = IF s.thrown = NoException THEN "returned" ELSE "thrown"
  /\ UNCHANGED <<env, argv, optind, optarg, locals, arg, ret, check>>

NextParse ==
  \/ ParseBegin
  \/ ScanOption
  \/ Validate

SpecParse == InitParse /\ [][NextParse]_vars

(***************************************************************************)
(* Parse called a second time by the same process, with the same tokens    *)
(* and environment. optind and optarg are globals initialised once: Parse  *)
(* does not assign optind, so the second call finds the cursor where the   *)
(* first left it. What the first call returned or threw is kept in ret.    *)
(***************************************************************************)
ParseAgain ==
  /\ pc \in {"returned", "thrown"}
  /\ ret = NoCall
  /\ ret' = [op |-> "Parse",
             res |-> [pc |-> pc, lparams |-> lparams, thrown |-> thrown]]
  /\ pc' = "idle"
  /\ UNCHANGED <<env, argv, optind, optarg, lparams, locals, cerr, thrown,
                 arg, check>>

NextParseAgain ==
  \/ ParseBegin
  \/ ScanOption
  \/ Validate
  \/ ParseAgain

SpecParseAgain == InitParse /\ [][NextParseAgain]_vars

(***************************************************************************)
(* Properties of CheckPortCollision, checked under SpecPorts               *)
(***************************************************************************)
Endpoints == {"HTTP", "GRPC", "metrics", "SageMaker", "Vertex AI"}

\* the place of an endpoint in the entry list
Order(e) ==
  CASE e = "HTTP" -> 1 [] e = "GRPC" -> 2 [] e = "metrics" -> 3
    [] e = "SageMaker" -> 4 [] e = "Vertex AI" -> 5

Enabled(e) ==
  CASE e = "HTTP" -> lparams.allow_http_
    [] e = "GRPC" -> lparams.allow_grpc_
    [] e = "metrics" -> lparams.allow_metrics_
    [] e = "SageMaker" -> lparams.allow_sagemaker_
    [] e = "Vertex AI" -> lparams.allow_vertex_ai_

AddressOf(e) ==
  CASE e = "HTTP" -> lparams.http_address_
    [] e = "GRPC" -> lparams.grpc_address_
    [] e = "metrics" -> lparams.metrics_address_
    [] e = "SageMaker" -> lparams.sagemaker_address_
    [] e = "Vertex AI" -> lparams.vertex_ai_address_

PortOf(e) ==
  CASE e = "HTTP" -> lparams.http_port_
    [] e = "GRPC" -> lparams.grpc_port_
    [] e = "metrics" -> lparams.metrics_port_
    [] e = "SageMaker" -> lparams.sagemaker_port_
    [] e = "Vertex AI" -> lparams.vertex_ai_port_

EnabledEndpoints == {e \in Endpoints : Enabled(e)}

\* only the SageMaker endpoint can declare a port range
DeclaresRange(e) == e = "SageMaker" /\ lparams.sagemaker_safe_range_set_
RangeMin == lparams.sagemaker_safe_range_[1]
RangeMax == lparams.sagemaker_safe_range_[2]

\* a and b are two enabled endpoints on one bind address
SameAddress(a, b) ==
  /\ a \in EnabledEndpoints
  /\ b \in EnabledEndpoints
  /\ a # b
  /\ AddressOf(a) = AddressOf(b)

\* a and b are two enabled endpoints on one bind address and port
Collide(a, b) == SameAddress(a, b) /\ PortOf(a) = PortOf(b)

\* o is on the address of the enabled endpoint r, which declares a range that
\* does not hold o's port
Offends(o, r) ==
  /\ SameAddress(o, r)
  /\ DeclaresRange(r)
  /\ PortOf(o) < RangeMin \/ PortOf(o) > RangeMax

Named(e) == \E i \in DOMAIN check.error.services : check.error.services[i] = e

\* C1 as claimed: if two distinct enabled endpoints have the same bind address
\* and port, CheckPortCollision fails with a PortConflict error that names
\* both services and the shared address:port.
C1_EveryCollisionIsNamed ==
  check.done =>
    \A a, b \in Endpoints :
      Collide(a, b) =>
        /\ check.error.what = "PortConflict"
        /\ Named(a) /\ Named(b)
        /\ check.error.address = AddressOf(a)
        /\ check.error.port = PortOf(a)

\* C1 amended: if two distinct enabled endpoints have the same bind address
\* and port, CheckPortCollision fails. The error is a PortConflict naming two
\* distinct enabled services that are both bound to the address:port of the
\* message (the first colliding pair met, which need not be every colliding
\* pair), or a PortRangeViolation for an enabled endpoint whose port is
\* outside the range declared on its address; without a declared range it
\* is a PortConflict.
C1_CollisionFails ==
  (check.done /\ \E a, b \in Endpoints : Collide(a, b)) =>
    /\ check.error.what \in {"PortConflict", "PortRangeViolation"}
    /\ check.error.what = "PortConflict" =>
         \E a, b \in Endpoints :
           /\ Collide(a, b)
           /\ check.error.services = <<a, b>>
           /\ check.error.address = AddressOf(a)
           /\ check.error.port = PortOf(a)
    /\ check.error.what = "PortRangeViolation" =>
         \E o, r \in Endpoints : Offends(o, r) /\ check.error.services = <<o>>
    /\ (~\E r \in EnabledEndpoints : DeclaresRange(r)) =>
         check.error.what = "PortConflict"

C1_Witness ==
  /\ check.done
  /\ check.error.what = "PortConflict"
  /\ check.error.services = <<"SageMaker", "Vertex AI">>
  /\ lparams.sagemaker_safe_range_set_

\* C2 as claimed: for every pair of distinct enabled endpoints with the same
\* bind address where one declares a port range and the other's port is
\* outside it, CheckPortCollision fails with a PortRangeViolation naming both
\* services, the offending port and the bounds.
C2_EveryRangeViolationNamesBoth ==
  check.done =>
    \A o, r \in Endpoints :
      Offends(o, r) =>
        /\ check.error.what = "PortRangeViolation"
        /\ Named(o) /\ Named(r)
        /\ check.error.port = PortOf(o)
        /\ check.error.range_min = RangeMin
        /\ check.error.range_max = RangeMax

\* two enabled endpoints collide and one of them is listed before r
CollisionBefore(r) ==
  \E a, b \in Endpoints : Collide(a, b) /\ Order(a) < Order(r)

\* C2 amended: if an enabled endpoint's port is outside the range declared by
\* another enabled endpoint on the same bind address, CheckPortCollision
\* fails, wherever the offending endpoint stands in the list (before or after
\* the declaring one). The error is a PortRangeViolation naming the first
\* offending service of the list (and not the declaring one), its port and
\* the bounds, unless two enabled endpoints, one of them listed before the
\* declaring endpoint, share address and port: then it is a PortConflict.
C2_RangeViolationFails ==
  check.done =>
    \A r \in Endpoints :
      (\E o \in Endpoints : Offends(o, r)) =>
        IF CollisionBefore(r)
          THEN check.error.what = "PortConflict"
          ELSE \E o \in Endpoints :
                 /\ Offends(o, r)
                 /\ \A x \in Endpoints : Offends(x, r) => Order(o) <= Order(x)
                 /\ check.error.what = "PortRangeViolation"
                 /\ check.error.services = <<o>>
                 /\ check.error.port = PortOf(o)
                 /\ check.error.range_min = RangeMin
                 /\ check.error.range_max = RangeMax

C2_Witness ==
  /\ check.done
  /\ check.error.what = "PortRangeViolation"
  /\ check.error.services = <<"HTTP">>
  /\ check.error.port = 8000
  /\ check.error.range_min = 8001
  /\ lparams.allow_vertex_ai_
  /\ Offends("Vertex AI", "SageMaker")

\* the port of x is inside the range y declares, if y declares one
InRangeOf(x, y) ==
  DeclaresRange(y) => (PortOf(x) >= RangeMin /\ PortOf(x) <= RangeMax)

\* C3: CheckPortCollision returns without error whenever every pair of
\* distinct enabled endpoints either has different bind addresses, or has
\* different ports with each port inside the range declared by the other (if
\* any); what is set for a disabled endpoint (port, range) does not count.
C3_NoErrorWithoutCollision ==
  (/\ check.done
   /\ \A a, b \in Endpoints :
        SameAddress(a, b) =>
          (PortOf(a) # PortOf(b) /\ InRangeOf(a, b) /\ InRangeOf(b, a))) =>
    check.error = NoError

C3_Witness ==
  /\ check.done
  /\ check.error = NoError
  /\ lparams.allow_http_ /\ lparams.allow_grpc_
  /\ lparams.http_address_ = lparams.grpc_address_
  /\ ~lparams.allow_sagemaker_
  /\ lparams.sagemaker_safe_range_set_
  /\ lparams.sagemaker_address_ = lparams.http_address_
  /\ lparams.sagemaker_port_ = lparams.http_port_
  /\ lparams.grpc_port_ > RangeMax

\* how many times the loop body compared the two endpoints, in either order
TimesCompared(a, b) ==
  Cardinality({i \in DOMAIN check.compared :
                 check.compared[i] \in {<<a, b>>, <<b, a>>}})

NoSelfComparison ==
  \A i \in DOMAIN check.compared : check.compared[i][1] # check.compared[i][2]

\* C4 as claimed: during one run, every unordered pair of distinct enabled
\* endpoints is compared exactly once, and no endpoint is compared against
\* itself, whether or not a port range is declared.
C4_EveryPairComparedOnce ==
  check.done =>
    /\ NoSelfComparison
    /\ \A a, b \in EnabledEndpoints : a # b => TimesCompared(a, b) = 1

\* C4 amended: no endpoint is ever compared against itself and only enabled
\* endpoints are compared. In a run that ends without error, every unordered
\* pair of distinct enabled endpoints is compared exactly twice (once from
\* each side) when one of them declares a port range and is listed after the
\* other, and exactly once otherwise; a run that fails stops at the failing
\* comparison, having compared no pair more often than that.
C4_PairComparisons ==
  check.done =>
    /\ NoSelfComparison
    /\ \A i \in DOMAIN check.compared :
         /\ check.compared[i][1] \in EnabledEndpoints
         /\ check.compared[i][2] \in EnabledEndpoints
    /\ \A a, b \in EnabledEndpoints :
         a # b =>
           LET n == IF \/ DeclaresRange(a) /\ Order(b) < Order(a)
                       \/ DeclaresRange(b) /\ Order(a) < Order(b)
                      THEN 2 ELSE 1
           IN  /\ TimesCompared(a, b) <= n
               /\ check.error = NoError => TimesCompared(a, b) = n

C4_Witness ==
  /\ check.done
  /\ check.error = NoError
  /\ TimesCompared("HTTP", "SageMaker") = 2
  /\ TimesCompared("HTTP", "GRPC") = 1
  /\ TimesCompared("SageMaker", "Vertex AI") = 1

\* one enabled endpoint bound to 0.0.0.0:otherPort and the SageMaker
\* endpoint, enabled on the same address, declaring the range [8000,8002]
\* and listening on ownPort; nothing else is enabled
RangeScenario(otherPort, ownPort) ==
  /\ check.done
  /\ lparams.allow_sagemaker_
  /\ lparams.sagemaker_safe_range_set_
  /\ lparams.sagemaker_safe_range_ = <<8000, 8002>>
  /\ lparams.sagemaker_address_ = "0.0.0.0"
  /\ lparams.sagemaker_port_ = ownPort
  /\ \E o \in Endpoints :
       /\ EnabledEndpoints = {o, "SageMaker"}
       /\ o # "SageMaker"
       /\ AddressOf(o) = "0.0.0.0"
       /\ PortOf(o) = otherPort

\* C5 as claimed: with one enabled endpoint bound to 0.0.0.0:8000 and another
\* on the same address declaring the range [8000,8002] whose actual port is
\* 8005, validation fails with PortRangeViolation; with actual port 8001 it
\* succeeds.
C5_OwnPortOutsideRangeFails ==
  /\ RangeScenario(8000, 8005) => check.error.what = "PortRangeViolation"
  /\ RangeScenario(8000, 8001) => check.error = NoError

\* C5 amended: in that scenario validation succeeds with no error whether the
\* declaring endpoint's own port is 8005 or 8001, because the range constrains
\* the other endpoints and not the one that declares it; the
\* PortRangeViolation arises when it is the other endpoint that is bound to
\* 0.0.0.0:8005 (the declaring endpoint listening on 8001).
C5_RangeBindsTheOtherEndpoint ==
  /\ RangeScenario(8000, 8005) => check.error = NoError
  /\ RangeScenario(8000, 8001) => check.error = NoError
  /\ RangeScenario(8005, 8001) =>
       /\ check.error.what = "PortRangeViolation"
       /\ check.error.port = 8005
       /\ check.error.range_min = 8000
       /\ check.error.range_max = 8002

C5_Witness == RangeScenario(8000, 8005) /\ check.error = NoError

(***************************************************************************)
(* Properties of the typed value parser and of the compound parsers,       *)
(* checked under SpecValue                                                 *)
(***************************************************************************)
NumericTypes == {"int", "int64_t", "uint64_t", "double"}

AllDigits(s) ==
  /\ s # ""
  /\ \A i \in 0..(Len(s) - 1) : IsDigit(CharAt(s, i))

Unsigned(s) ==
  IF s # "" /\ CharAt(s, 0) \in {"+", "-"} THEN SubstrFrom(s, 1) ELSE s

\* the whole of s is an integer literal: an optional sign, then digits only
IsIntegerLiteral(s) == AllDigits(Unsigned(s))

\* the whole of s is a decimal floating point literal
IsDoubleLiteral(s) ==
  LET u == Unsigned(s)
      points == {p \in 0..(Len(u) - 1) : CharAt(u, p) = "."}
  IN  \/ AllDigits(u)
      \/ \E p \in points :
           LET w == Substr(u, 0, p)
               f == SubstrFrom(u, p + 1)
           IN  /\ w = "" \/ AllDigits(w)
               /\ f = "" \/ AllDigits(f)
               /\ w # "" \/ f # ""

IsLiteral(T, s) ==
  IF T = "double" THEN IsDoubleLiteral(s) ELSE IsIntegerLiteral(s)

\* C7: parsing a string as int, int64, uint64 or double succeeds only if the
\* whole string is a valid literal of that type (a valid numeric prefix
\* followed by other characters fails), and "12" parsed as int yields 12.
C7_OnlyWholeLiteralsParse ==
  (ret.op = "ParseOption" /\ ret.T \in NumericTypes) =>
    /\ IsOk(ret.res) => IsLiteral(ret.T, arg)
    /\ (ret.T = "int" /\ arg = "12") => ret.res = Ok(12)

\* two characters are the same letter, whatever their case
SameLetter(c, d) ==
  \/ c = d
  \/ c \in DOMAIN LowerTable /\ LowerTable[c] = d
  \/ d \in DOMAIN LowerTable /\ LowerTable[d] = c

EqualsIgnoringCase(s, w) ==
  /\ Len(s) = Len(w)
  /\ \A i \in 0..(Len(s) - 1) : SameLetter(CharAt(s, i), CharAt(w, i))

\* C8: boolean parsing yields true exactly for "true", "on", "1" in any
\* letter case, false exactly for "false", "off", "0" in any letter case,
\* and fails with a ParseException for every other string.
C8_BoolLiterals ==
  (ret.op = "ParseOption" /\ ret.T = "bool") =>
    LET t == \E w \in {"true", "on", "1"} : EqualsIgnoringCase(arg, w)
        f == \E w \in {"false", "off", "0"} : EqualsIgnoringCase(arg, w)
    IN  /\ t => ret.res = Ok(TRUE)
        /\ f => ret.res = Ok(FALSE)
        /\ (~t /\ ~f) => ret.res = Throw("ParseException")

C8_Witness ==
  /\ ret.op = "ParseOption"
  /\ ret.T = "bool"
  /\ arg = "tRuE"
  /\ ret.res = Ok(TRUE)

\* C9: the pair parser splits at the first occurrence of the delimiter (the
\* second half is all the text after it) and parses each half with the typed
\* value parser; without the delimiter it fails with a ParseException.
C9_PairSplitsAtFirstDelimiter ==
  (ret.op = "ParsePairOption") =>
    LET d == ret.delim_str
        hits == {p \in 0..Len(arg) : OccursAt(arg, d, p)}
    IN  IF hits = {} THEN ret.res = Throw("ParseException")
        ELSE \E p \in hits :
               /\ \A q \in hits : p <= q
               /\ LET first == ParseOption(ret.T1, Substr(arg, 0, p))
                      second == ParseOption(ret.T2, SubstrFrom(arg, p + Len(d)))
                  IN  /\ IsOk(ret.res) <=> (IsOk(first) /\ IsOk(second))
                      /\ IsOk(ret.res) =>
                           ValueOf(ret.res) = <<ValueOf(first), ValueOf(second)>>
                      /\ ~IsOk(ret.res) => ret.res \in {first, second}

C9_Witness ==
  /\ ret.op = "ParsePairOption"
  /\ ret.T2 = "int"
  /\ arg = "1-2-4"
  /\ ret.res = Ok(<<1, 2>>)

\* c occurs in s at position p and nowhere in s from position `from` to p
FirstAt(s, c, from, p) ==
  /\ p >= from
  /\ p < Len(s)
  /\ CharAt(s, p) = c
  /\ \A q \in from..(p - 1) : CharAt(s, q) # c

\* the <<group name, key, value>> an argument of the shape
\* "<group>,<key>=<value>" denotes, all three non-empty: the text before the
\* first comma, between it and the first '=' after it, and after that '='
SettingShape(s) ==
  {t \in {<<Substr(s, 0, p), Substr(s, p + 1, q - p - 1), SubstrFrom(s, q + 1)>> :
            p \in {x \in 0..Len(s) : FirstAt(s, ",", 0, x)},
            q \in {y \in 0..Len(s) : \E x \in 0..Len(s) :
                     FirstAt(s, ",", 0, x) /\ FirstAt(s, "=", x + 1, y)}} :
     t[1] # "" /\ t[2] # "" /\ t[3] # ""}

\* the <<"", key, value>> an argument "<key>=<value>" without a comma denotes
GlobalSettingShape(s) ==
  {t \in {<<"", Substr(s, 0, q), SubstrFrom(s, q + 1)>> :
            q \in {y \in 0..Len(s) : FirstAt(s, "=", 0, y)}} :
     t[2] # "" /\ t[3] # ""}

HasComma(s) == \E p \in 0..(Len(s) - 1) : CharAt(s, p) = ","

\* the result a named-setting parser gives when it accepts exactly `shapes`
Accepts(shapes) ==
  IF shapes = {} THEN ret.res = Throw("ParseException")
  ELSE \E t \in shapes : ret.res = Ok(t)

\* C10 as claimed: for --cache-config, --backend-config and --host-policy, an
\* argument with no comma, a comma at position 0, no '=' after the first
\* comma, or an empty key or value fails; every accepted argument yields a
\* non-empty group name, key and value.
C10_AllThreeRequireGroupName ==
  (ret.op = "ParseSettingOption") => Accepts(SettingShape(arg))

\* C10 amended: that holds of --cache-config and --host-policy, and of
\* --backend-config for the arguments that contain a comma; --backend-config
\* accepts an argument without a comma as a global setting with an empty group
\* name when the text before its first '=' and the text after it are both
\* non-empty.
C10_SettingParsers ==
  (ret.op = "ParseSettingOption") =>
    IF ret.flag = "backend-config" /\ ~HasComma(arg)
      THEN Accepts(GlobalSettingShape(arg))
      ELSE Accepts(SettingShape(arg))

C10_Witness ==
  /\ ret.op = "ParseSettingOption"
  /\ ret.flag = "backend-config"
  /\ arg = "size=1"
  /\ ret.res = Ok(<<"", "size", "1">>)

(***************************************************************************)
(* Properties of Parse, checked under SpecParse                            *)
(***************************************************************************)
Returned == pc = "returned"

BothCacheFlags == locals.cache_size_present /\ locals.cache_config_present

SomeCollision == \E a, b \in Endpoints : Collide(a, b)

\* C6 as claimed: the port-collision check is part of Parse, so a Parse call
\* whose tokens leave two enabled endpoints on the same address and port does
\* not return a Configuration.
C6_ParseRejectsCollision == Returned => ~SomeCollision

\* C6 amended: the port-collision check is not part of Parse. The last
\* validation step of Parse is the cache-flag mutual-exclusion check: once
\* the tokens have scanned without error, Parse fails only if both cache
\* flags were given, and otherwise returns the Configuration, also when two
\* enabled endpoints are on the same address and port. The collision is
\* reported by CheckPortCollision, a separate operation on the returned
\* Configuration, which fails for such a Configuration.
C6_ParseLeavesCollisionToCheck ==
  /\ pc = "thrown" /\ thrown.by = "validation" =>
       /\ thrown.exception = "ParseException"
       /\ thrown.what = IncompatibleCacheFlags
       /\ BothCacheFlags
  /\ Returned =>
       /\ ~BothCacheFlags
       /\ SomeCollision =>
            RunCheckPortCollision(lparams).error.what
              \in {"PortConflict", "PortRangeViolation"}

C6_Witness ==
  /\ Returned
  /\ Collide("HTTP", "GRPC")
  /\ RunCheckPortCollision(lparams).error.what = "PortConflict"

(***************************************************************************)
(* Properties of the rate limit resource parser, checked under SpecValue   *)
(***************************************************************************)
\* the positions of the colons of s, and the k-th of them
ColonsOf(s) == {i \in 0..(Len(s) - 1) : CharAt(s, i) = ":"}

ColonAt(s, k) ==
  CHOOSE i \in ColonsOf(s) : Cardinality({j \in ColonsOf(s) : j < i}) = k - 1

\* C11: the rate limit resource parser takes "name:count" to
\* (name, count, -1) and "name:count:device" to (name, count, device), count
\* and device being parsed as integers; only arguments with one or two
\* colons are accepted, and an argument with no colon or with three or more
\* colons fails with a ParseException.
C11_RateLimitResource ==
  ret.op = "ParseRateLimiterResourceOption" =>
    LET n == Cardinality(ColonsOf(arg))
        first == ColonAt(arg, 1)
        name == Substr(arg, 0, first)
        count_1 == ParseOptionInt(SubstrFrom(arg, first + 1))
        second == ColonAt(arg, 2)
        count_2 == ParseOptionInt(Substr(arg, first + 1, second - first - 1))
        device == ParseOptionInt(SubstrFrom(arg, second + 1))
    IN  /\ IsOk(ret.res) => n \in {1, 2}
        /\ (n = 0 \/ n >= 3) => ret.res = Throw("ParseException")
        /\ (n = 1 /\ IsOk(count_1)) =>
              ret.res = Ok(<<name, ValueOf(count_1), -1>>)
        /\ (n = 2 /\ IsOk(count_2) /\ IsOk(device)) =>
              ret.res = Ok(<<name, ValueOf(count_2), ValueOf(device)>>)
        /\ arg = "GPU_UTIL:4" => ret.res = Ok(<<"GPU_UTIL", 4, -1>>)
        /\ arg = "GPU_UTIL:4:0" => ret.res = Ok(<<"GPU_UTIL", 4, 0>>)
        /\ arg = "GPU_UTIL:4:0:1" => ~IsOk(ret.res)

C11_Witness ==
  /\ ret.op = "ParseRateLimiterResourceOption"
  /\ arg = "GPU_UTIL:4:0"
  /\ ret.res = Ok(<<"GPU_UTIL", 4, 0>>)

(***************************************************************************)
(* Properties of the scan loop of Parse, checked under SpecParse           *)
(***************************************************************************)
\* the parameters and local flags before the scan loop, as ParseBegin
\* leaves them
InitialParameters(e) ==
  LET lp1 == IF GetEnvironmentVariableOrDefault(e, "AIP_MODE", "")
                 = "PREDICTION"
               THEN [DefaultParameters EXCEPT !.allow_vertex_ai_ = TRUE,
                                              !.allow_http_ = FALSE,
                                              !.allow_grpc_ = FALSE]
             ELSE DefaultParameters
  IN  [lp1 EXCEPT !.vertex_ai_port_ = ValueOf(ParseOptionInt(
         GetEnvironmentVariableOrDefault(e, "AIP_HTTP_PORT", "8080")))]

InitialLocals ==
  [strict_model_config_present |-> FALSE,
   disable_auto_complete_config |-> FALSE,
   cache_size_present |-> FALSE,
   cache_config_present |-> FALSE,
   explicit_disable_trace |-> FALSE]

\* how a scan ends: the events (where the flag stood, the identifier, the
\* raw argument), the parameters and the exception
Scan(ev, lp, lc, ce, e) ==
  [events |-> ev, lparams |-> lp, locals |-> lc, cerr |-> ce, thrown |-> e]

\* the scan loop from cursor oi to its end, turn by turn as ScanOption
RECURSIVE ScanLoop(_, _, _, _, _, _, _)
Switched(av, g, s, ev) ==
  IF s.thrown = NoException
    THEN ScanLoop(av, g.optind, g.optarg, s.lparams, s.locals, s.cerr, ev)
  ELSE Scan(ev, s.lparams, s.locals, s.cerr, s.thrown)

ScanTurn(av, oi, g, lp, lc, ce, ev) ==
  IF g.exception # "none"
    THEN Scan(ev, lp, lc, ce,
              [exception |-> g.exception, by |-> "getopt_long", what |-> ""])
  ELSE IF g.flag = "-1"
    THEN IF oi < Len(av)
           THEN Scan(ev, lp, lc, ce,
                     ParseException("Unexpected argument: " \o ArgvAt(av, oi)))
         ELSE Scan(ev, lp, lc, ce, NoException)
  ELSE Switched(av, g, Switch(g.flag, g.optarg, lp, lc, ce \o g.cerr),
                IF g.flag = "?" THEN ev
                ELSE Append(ev, [at |-> oi, id |-> g.flag, arg |-> g.optarg]))

ScanLoop(av, oi, oa, lp, lc, ce, ev) ==
  ScanTurn(av, oi, getopt_long(av, oi, oa), lp, lc, ce, ev)

\* what Parse(av) does in environment e: its events, and the parameters it
\* returns or the exception it throws
Outcome(ev, returned, lp, e) ==
  [events |-> ev, returned |-> returned, lparams |-> lp, thrown |-> e]

Validated(ev, s) ==
  IF s.thrown = NoException THEN Outcome(ev, TRUE, s.lparams, NoException)
  ELSE Outcome(ev, FALSE, <<>>, [s.thrown EXCEPT !.by = "validation"])

Finished(s, e) ==
  IF s.thrown # NoException THEN Outcome(s.events, FALSE, <<>>, s.thrown)
  ELSE Validated(s.events,
                 PostParseValidation(s.lparams, s.locals, s.cerr, e))

ParseOutcome(av, e) ==
  Finished(ScanLoop(av, 1, "", InitialParameters(e), InitialLocals,
                    <<>>, <<>>), e)

\* the flag name of a token: the text behind its first two characters, up
\* to the first equals sign
FlagNameOf(token) ==
  LET found == Find(token, "=", 0)
  IN  IF found = npos THEN SubstrFrom(token, 2)
      ELSE Substr(token, 2, found - 2)

FlagNames == {recognized_options_[i].flag_ : i \in DOMAIN recognized_options_}

ValueFlagNames ==
  {recognized_options_[i].flag_ :
     i \in {j \in DOMAIN recognized_options_ :
              recognized_options_[j].kind_ # "ArgNone"}}

HasPrefix(token) == Len(token) >= 2 /\ SubSeq(token, 1, 2) = "--"

\* the (identifier, raw argument) pairs of an outcome
EventsOf(o) ==
  [k \in DOMAIN o.events |-> <<o.events[k].id, o.events[k].arg>>]

\* the places of av where a value-taking flag is read with its value
\* attached
AttachedAt(av, o) ==
  {o.events[k].at : k \in
     {j \in DOMAIN o.events :
        /\ Find(ArgvAt(av, o.events[j].at), "=", 0) # npos
        /\ Len(ArgvAt(av, o.events[j].at)) >= 2
        /\ FlagNameOf(ArgvAt(av, o.events[j].at)) \in ValueFlagNames}}

\* av with the attached value at place i given as the next token instead
Separate(av, i) ==
  LET token == ArgvAt(av, i)
      found == Find(token, "=", 0)
  IN  SubSeq(av, 1, i) \o <<Substr(token, 0, found),
                             SubstrFrom(token, found + 1)>>
        \o SubSeq(av, i + 2, Len(av))

SameOutcome(a, b) ==
  /\ EventsOf(a) = EventsOf(b)
  /\ a.returned = b.returned
  /\ a.lparams = b.lparams
  /\ a.thrown = b.thrown

\* C12: when Parse has ended, giving the value of any value-taking flag of
\* the list as the next token ("--F", "V") instead of attached ("--F=V")
\* yields the same (identifier, raw argument) events in the same order and
\* the same returned parameters or the same exception as the run that
\* ended.
C12_AttachedOrSeparate ==
  pc \in {"returned", "thrown"} =>
    \E o \in {ParseOutcome(argv, env)} :
      /\ o.returned = (pc = "returned")
      /\ o.thrown = thrown
      /\ o.returned => o.lparams = lparams
      /\ \A i \in AttachedAt(argv, o) :
           SameOutcome(ParseOutcome(Separate(argv, i), env), o)

C12_Witness ==
  /\ pc = "returned"
  /\ argv = <<"tritonserver", "--id", "a", "--id=a">>
  /\ AttachedAt(argv, ParseOutcome(argv, env)) = {3}
  /\ Separate(argv, 3) = <<"tritonserver", "--id", "a", "--id", "a">>
  /\ lparams.server_id_ = "a"

\* the token under the cursor while the scan loop runs
AtToken == pc = "scan" /\ optind < Len(argv)

Token == ArgvAt(argv, optind)

\* a token whose flag name is no flag name of the registry
Unmatched(token) == Len(token) < 2 \/ FlagNameOf(token) \notin FlagNames

\* C13: a token whose flag name equals no registered flag name exactly
\* (an abbreviation, a case variant, any other text) ends the parse in that
\* turn with the ParseException "Unexpected argument: <token>", and nothing
\* is returned.
C13_UnmatchedTokenIsNamed ==
  [][(AtToken /\ Unmatched(Token)) =>
       /\ pc' = "thrown"
       /\ thrown' = ParseException("Unexpected argument: " \o Token)]_vars

\* C14: a token that does not begin with "--" is never taken for a flag:
\* the turn that reads it ends the parse and leaves the parameters as they
\* were.
C14_OnlyPrefixedTokensMatch ==
  [][(AtToken /\ ~HasPrefix(Token)) =>
       /\ pc' = "thrown"
       /\ lparams' = lparams]_vars

MissingArgument(token) ==
  ArgvAt(argv, 0) \o ": option '" \o token \o "' requires an argument"

\* C15: a value-taking flag read without '=' takes the token behind it
\* whole as its argument, whatever that token is, and the cursor moves past
\* both; with no token behind it the parse ends with the ParseException of
\* a missing argument after the message on std::cerr; a flag with its value
\* attached, or without a value, moves the cursor past its one token.
C15_NextTokenIsTheArgument ==
  [][(AtToken /\ ~Unmatched(Token)) =>
       IF FlagNameOf(Token) \in ValueFlagNames /\ Find(Token, "=", 0) = npos
         THEN IF optind + 1 < Len(argv)
                THEN /\ optarg' = ArgvAt(argv, optind + 1)
                     /\ optind' = optind + 2
                     /\ Token = "--id" =>
                          /\ pc' = "scan"
                          /\ lparams' = [lparams EXCEPT !.server_id_ =
                                                          ArgvAt(argv, optind + 1)]
              ELSE /\ pc' = "thrown"
                   /\ thrown' = ParseException("")
                   /\ cerr' = Append(cerr, MissingArgument(Token))
                   /\ lparams' = lparams
       ELSE optind' = optind + 1]_vars

C15_Witness ==
  /\ pc = "returned"
  /\ argv = <<"tritonserver", "--id", "--id=a">>
  /\ optind = 3
  /\ optarg = "--id=a"
  /\ lparams.server_id_ = "--id=a"

(***************************************************************************)
(* Properties of the parameters Parse returns, checked under SpecParse     *)
(***************************************************************************)
\* the arguments given in av, from place i on, to the flags called names;
\* meant for lists whose tokens are all flags or their arguments
RECURSIVE Given(_, _, _)
Given(av, i, names) ==
  IF i >= Len(av) THEN {}
  ELSE LET token == ArgvAt(av, i)
           found == Find(token, "=", 0)
           separate == FlagNameOf(token) \in ValueFlagNames /\ found = npos
           value == IF separate THEN ArgvAt(av, i + 1)
                    ELSE SubstrFrom(token, found + 1)
       IN  (IF FlagNameOf(token) \in names THEN {value} ELSE {})
             \cup Given(av, IF separate THEN i + 2 ELSE i + 1, names)

RECURSIVE Occurrences(_, _, _)
Occurrences(av, i, names) ==
  IF i >= Len(av) THEN <<>>
  ELSE LET token == ArgvAt(av, i)
           found == Find(token, "=", 0)
           separate == FlagNameOf(token) \in ValueFlagNames /\ found = npos
           value == IF separate THEN ArgvAt(av, i + 1)
                    ELSE SubstrFrom(token, found + 1)
       IN  (IF FlagNameOf(token) \in names
              THEN <<[name |-> FlagNameOf(token), value |-> value]>>
            ELSE <<>>)
             \o Occurrences(av, IF separate THEN i + 2 ELSE i + 1, names)

\* the options with one destination field that a repeat overwrites
SingleValued == DOMAIN Stores \cup DOMAIN Words

FieldOf(id) == IF id \in DOMAIN Stores THEN Stores[id][1] ELSE Words[id].field

FlagsOf(id) ==
  {recognized_options_[i].flag_ :
     i \in {j \in DOMAIN recognized_options_ :
              recognized_options_[j].id_ = id}}

\* the value the argument v of option id stands for
MeantBy(id, v) ==
  IF id \in DOMAIN Stores THEN ValueOf(Converted(Stores[id][2], v))
  ELSE Words[id].words[IF Words[id].lower THEN ToLower(v) ELSE v]

\* those of the occurrences all that are of the flags called names
Among(all, names) ==
  SelectSeq(all, LAMBDA o : o.name \in names)

\* the field of id holds the value of the last of occ, or what it held
\* before the scan when occ is empty
HoldsLast(id, occ, before) ==
  lparams[FieldOf(id)] =
    IF occ = <<>> THEN before[FieldOf(id)]
    ELSE MeantBy(id, occ[Len(occ)].value)

ScanDone == pc = "validate"

\* C17 as stated: after a scan that succeeded, the field of every
\* single-valued option holds the value of the option's last occurrence,
\* and the value it had before the scan when the option does not occur.
C17_LastOccurrenceOnly ==
  ScanDone =>
    \E all \in {Occurrences(argv, 1, FlagNames)},
       before \in {InitialParameters(env)} :
      \A id \in SingleValued :
        HoldsLast(id, Among(all, FlagsOf(id)), before)

\* C17: after a scan that succeeded, the field of every single-valued
\* option holds the value of the option's last occurrence, and the value it
\* had before the scan when the option does not occur; only the field of
\* --grpc-use-ssl is also written by another option: it is true when
\* --grpc-use-ssl-mutual occurs behind the last --grpc-use-ssl.
C17_LastOccurrenceWins ==
  ScanDone =>
    \E all \in {Occurrences(argv, 1, FlagNames)},
       before \in {InitialParameters(env)} :
      /\ \A id \in SingleValued \ {"OPTION_GRPC_USE_SSL"} :
           HoldsLast(id, Among(all, FlagsOf(id)), before)
      /\ \E occ \in {Among(all, {"grpc-use-ssl", "grpc-use-ssl-mutual"})} :
           IF occ # <<>> /\ occ[Len(occ)].name = "grpc-use-ssl-mutual"
             THEN lparams.grpc_use_ssl_ = TRUE
           ELSE HoldsLast("OPTION_GRPC_USE_SSL",
                          Among(all, {"grpc-use-ssl"}), before)

C17_Witness ==
  /\ ScanDone
  /\ argv = <<"tritonserver", "--id=a", "--rate-limit=execution_count",
              "--id=b">>
  /\ lparams.server_id_ = "b"
  /\ lparams.rate_limit_mode_ = "TRITONSERVER_RATE_LIMIT_EXEC_COUNT"

\* the value of the last of the occurrences occ, or otherwise when there
\* is none
LastOr(occ, otherwise) ==
  IF occ = <<>> THEN otherwise ELSE occ[Len(occ)].value

\* C18: in the parameters Parse returns, the poll interval is 0 when the
\* last --model-control-mode is not "poll" (or none was given), whatever
\* --repository-poll-secs said and wherever it stood; in poll mode it is the
\* value of the last --repository-poll-secs, or the default without one.
C18_PollSecsOnlyInPollMode ==
  Returned =>
    \E all \in {Occurrences(argv, 1, FlagNames)} :
      IF ToLower(LastOr(Among(all, {"model-control-mode"}), "none")) = "poll"
        THEN /\ lparams.control_mode_ = "TRITONSERVER_MODEL_CONTROL_POLL"
             /\ \E secs \in {Among(all, {"repository-poll-secs"})} :
                  lparams.repository_poll_secs_ =
                    IF secs = <<>> THEN DefaultParameters.repository_poll_secs_
                    ELSE ValueOf(ParseOptionInt(LastOr(secs, "")))
      ELSE /\ lparams.control_mode_ # "TRITONSERVER_MODEL_CONTROL_POLL"
           /\ lparams.repository_poll_secs_ = 0

C18_Witness ==
  /\ Returned
  /\ argv = <<"tritonserver", "--repository-poll-secs=5",
              "--model-control-mode=poll", "--model-control-mode=explicit">>
  /\ lparams.control_mode_ = "TRITONSERVER_MODEL_CONTROL_EXPLICIT"
  /\ lparams.repository_poll_secs_ = 0

\* a list of nothing but metrics flags
OnlyMetricsFlags ==
  \A i \in 1..(Len(argv) - 1) : ArgvAt(argv, i) \in MetricsTokens

\* C19: in the parameters Parse returns, GPU metrics and CPU metrics are
\* allowed only if metrics are allowed, and a list of --allow-metrics,
\* --allow-gpu-metrics and --allow-cpu-metrics flags with whatever values,
\* in whatever order, never ends in an exception.
C19_MetricsMasked ==
  /\ Returned =>
       /\ lparams.allow_gpu_metrics_ => lparams.allow_metrics_
       /\ lparams.allow_cpu_metrics_ => lparams.allow_metrics_
  /\ OnlyMetricsFlags => pc # "thrown"

C19_Witness ==
  /\ Returned
  /\ argv = <<"tritonserver", "--allow-gpu-metrics=true",
              "--allow-metrics=false", "--allow-cpu-metrics=true">>
  /\ ~lparams.allow_metrics_
  /\ ~lparams.allow_gpu_metrics_
  /\ ~lparams.allow_cpu_metrics_

\* the arguments of the occurrences occ
ValuesOf(occ) == {occ[k].value : k \in DOMAIN occ}

\* C20: in the parameters Parse returns, the trace level is DISABLED when
\* any --trace-level flag said "off" or "false" in whatever case, wherever
\* it stood; otherwise it is the union of the bits of the levels of all the
\* --trace-level flags.
C20_TraceLevel ==
  Returned =>
    \E given \in {ValuesOf(Among(Occurrences(argv, 1, FlagNames),
                                  {"trace-level"}))} :
      IF \E v \in given : ToLower(v) \in {"off", "false"}
        THEN lparams.trace_level_ = {}
      ELSE lparams.trace_level_ =
             UNION {ValueOf(ParseTraceLevelOption(v)) : v \in given}

C20_Witness ==
  /\ Returned
  /\ argv = <<"tritonserver", "--trace-level=TENSORS", "--trace-level=OFF",
              "--trace-level=TIMESTAMPS">>
  /\ lparams.trace_level_ = {}

\* what was written to std::cerr
Warned(message) == \E k \in DOMAIN cerr : cerr[k] = message

\* C21: in the parameters Parse returns, strict_model_config_ is true
\* whenever --disable-auto-complete-config was given, whatever the
\* --strict-model-config flags said and wherever they stood; the override
\* warning is written exactly when --strict-model-config was given too and
\* its value, the last one, was false; without
\* --disable-auto-complete-config, strict_model_config_ is the value of the
\* last --strict-model-config, or the default.
C21_DisableAutoCompleteWins ==
  Returned =>
    \E all \in {Occurrences(argv, 1, FlagNames)} :
      \E strict \in {Among(all, {"strict-model-config"})},
         disable \in {Among(all, {"disable-auto-complete-config"}) # <<>>} :
        /\ disable => lparams.strict_model_config_ = TRUE
        /\ Warned(OverrideWarning) <=>
             /\ disable
             /\ strict # <<>>
             /\ ~ValueOf(ParseOptionBool(LastOr(strict, "")))
        /\ ~disable =>
             lparams.strict_model_config_ =
               IF strict = <<>> THEN DefaultParameters.strict_model_config_
               ELSE ValueOf(ParseOptionBool(LastOr(strict, "")))

C21_Witness ==
  /\ Returned
  /\ argv = <<"tritonserver", "--disable-auto-complete-config",
              "--strict-model-config=TRUE", "--strict-model-config=false">>
  /\ lparams.strict_model_config_ = TRUE
  /\ Warned(OverrideWarning)

\* Parse has come to its last check: every token scanned without error
ScannedThrough ==
  Returned \/ (pc = "thrown" /\ thrown.by = "validation")

Mentions(message, flag) == Find(message, flag, 0) # npos

\* C22: for a token list that scans without error, Parse throws the
\* ParseException naming --response-cache-byte-size and --cache-config when
\* both occur, however often and in whatever order; with one kind only it
\* returns parameters with the cache enabled, with neither it returns them
\* with the cache disabled; so enable_cache_ is true in returned parameters
\* exactly when one of the two kinds was given.
C22_CacheFlagsExclusive ==
  ScannedThrough =>
    \E all \in {Occurrences(argv, 1, FlagNames)} :
      \E size \in {Among(all, {"response-cache-byte-size"}) # <<>>},
         config \in {Among(all, {"cache-config"}) # <<>>} :
        IF size /\ config
          THEN /\ pc = "thrown"
               /\ thrown.exception = "ParseException"
               /\ Mentions(thrown.what, "--response-cache-byte-size")
               /\ Mentions(thrown.what, "--cache-config")
        ELSE /\ Returned
             /\ lparams.enable_cache_ = (size \/ config)

C22_Witness ==
  /\ pc = "thrown"
  /\ argv = <<"tritonserver", "--cache-config", "local,size=1",
              "--response-cache-byte-size=1">>
  /\ thrown.by = "validation"
  /\ thrown.what = IncompatibleCacheFlags

(***************************************************************************)
(* Properties of the failures of Parse, checked under SpecParse            *)
(***************************************************************************)
\* C23: whatever makes Parse fail once the scanner has matched a token (a
\* value that is not of its type or shape, a missing argument, conflicting
\* options) or found one left over, the exception that leaves Parse is a
\* ParseException, also for a non-numeric or out-of-range argument of
\* --http-port and a non-numeric count of --rate-limit-resource.
C23_EveryFailureIsAParseException ==
  (pc = "thrown" /\ thrown.by # "getopt_long") =>
    thrown.exception = "ParseException"

\* the identifier of the flag called name
IdOf(name) ==
  recognized_options_[CHOOSE i \in DOMAIN recognized_options_ :
                        recognized_options_[i].flag_ = name].id_

\* the argument v is one the option id takes
GoodValue(id, v) ==
  IF id = "OPTION_HELP" THEN FALSE
  ELSE IF id \in DOMAIN Stores THEN IsOk(Converted(Stores[id][2], v))
  ELSE IF id \in DOMAIN Words
    THEN (IF Words[id].lower THEN ToLower(v) ELSE v) \in DOMAIN Words[id].words
  ELSE IF id \in DOMAIN Compounds THEN IsOk(Compound(Compounds[id], v))
  ELSE TRUE

\* a flag at place i of av that takes the token behind it as its argument
Separately(av, i) ==
  /\ FlagNameOf(ArgvAt(av, i)) \in ValueFlagNames
  /\ Find(ArgvAt(av, i), "=", 0) = npos

\* the place of the first token of av, from place i on, that is unmatched,
\* lacks its argument, has a bad value or asks for help; 0 without one
RECURSIVE FirstBad(_, _)
FirstBad(av, i) ==
  IF i >= Len(av) THEN 0
  ELSE IF Unmatched(ArgvAt(av, i)) THEN i
  ELSE IF Separately(av, i) /\ i + 1 >= Len(av) THEN i
  ELSE IF ~GoodValue(IdOf(FlagNameOf(ArgvAt(av, i))),
                     IF Separately(av, i) THEN ArgvAt(av, i + 1)
                     ELSE SubstrFrom(ArgvAt(av, i),
                                     Find(ArgvAt(av, i), "=", 0) + 1))
    THEN i
  ELSE FirstBad(av, IF Separately(av, i) THEN i + 2 ELSE i + 1)

\* av up to the token at place i and its argument
Cut(av, i) ==
  SubSeq(av, 1, IF Separately(av, i) /\ i + 1 < Len(av) THEN i + 2 ELSE i + 1)

\* C24: when Parse has ended and the token at place i is the first that is
\* unmatched, lacks its argument or has a bad value, Parse has thrown, and
\* the exception and the parameters it leaves behind are those of the list
\* cut behind that token: no token behind it was applied and nothing is
\* returned; the exception of the last checks of Parse is thrown only when
\* no token is bad, so a bad token comes before a conflict of cache flags.
C24_FirstProblemAborts ==
  pc \in {"returned", "thrown"} =>
    \E i \in {FirstBad(argv, 1)} :
      IF i = 0 THEN ScannedThrough
      ELSE /\ pc = "thrown"
           /\ thrown.by # "validation"
           /\ \E s \in {ScanLoop(Cut(argv, i), 1, "", InitialParameters(env),
                                  InitialLocals, <<>>, <<>>)} :
                /\ s.thrown = thrown
                /\ s.lparams = lparams

C24_Witness ==
  /\ pc = "thrown"
  /\ argv = <<"tritonserver", "--response-cache-byte-size=1",
              "--cache-config=size=1", "--cache-config">>
  /\ FirstBad(argv, 1) = 2
  /\ BothCacheFlags
  /\ thrown.by = "value parser"

C26_DefaultRepositoryOnlyWithVertexAI ==
  Returned =>
    \E given \in {Given(argv, 1, {"model-repository", "model-store"})},
       uri \in {GetEnvironmentVariableOrDefault(env, "AIP_STORAGE_URI", "")} :
      /\ uri \in lparams.model_repository_paths_ =>
           /\ given = {}
           /\ uri # ""
           /\ lparams.allow_vertex_ai_
           /\ lparams.model_repository_paths_ = {uri}
      /\ given # {} => lparams.model_repository_paths_ = given

\* C27: in the parameters Parse returns, SSL is in use for GRPC whenever
\* some --grpc-use-ssl-mutual was given with a true value, whatever the
\* --grpc-use-ssl flags said and wherever they stood.
C27_MutualPreemptsUseSsl ==
  Returned =>
    \E mutual \in {ValuesOf(Among(Occurrences(argv, 1, FlagNames),
                                  {"grpc-use-ssl-mutual"}))} :
      (\E v \in mutual : ParseOptionBool(v) = Ok(TRUE)) =>
        lparams.grpc_use_ssl_ = TRUE

\* C28: in the parameters Parse returns, the entry of every
\* --rate-limit-resource is the triple of its argument in lower case, so
\* that arguments that differ only in the case of their letters leave the
\* same entry and every stored name is in lower case.
C28_ResourceNameCaseInsensitive ==
  Returned =>
    \E given \in {Among(Occurrences(argv, 1, FlagNames),
                         {"rate-limit-resource"})} :
      lparams.rate_limit_resources_ =
        [k \in DOMAIN given |->
           ValueOf(ParseRateLimiterResourceOption(ToLower(given[k].value)))]

(***************************************************************************)
(* The value parser of an option against the kind its descriptor declares  *)
(***************************************************************************)
KindOf(name) ==
  recognized_options_[CHOOSE i \in DOMAIN recognized_options_ :
                        recognized_options_[i].flag_ = name].kind_

\* the argument v is a literal of the declared kind
LiteralOf(kind, v) ==
  CASE kind = "ArgBool" -> IsOk(ParseOptionBool(v))
    [] kind = "ArgFloat" -> IsOk(ParseOptionDouble(v))
    [] OTHER -> TRUE

\* the decimal numeral of n >= 0
RECURSIVE NumeralOf(_)
NumeralOf(n) ==
  IF n < 10 THEN <<"0", "1", "2", "3", "4", "5", "6", "7", "8", "9">>[n + 1]
  ELSE NumeralOf(n \div 10) \o NumeralOf(n % 10)

\* the floating point value the field of id holds; an int is widened
Floating(id) ==
  IF Stores[id][2] = "double" THEN lparams[FieldOf(id)]
  ELSE [neg |-> lparams[FieldOf(id)] < 0,
        whole |-> NumeralOf(IF lparams[FieldOf(id)] < 0
                              THEN 0 - lparams[FieldOf(id)]
                            ELSE lparams[FieldOf(id)]),
        frac |-> ""]

\* C29: the argument of an option declared ArgBool or ArgFloat is parsed as
\* its declared kind: a scan that succeeded met only boolean literals at
\* the ArgBool options, and its ArgFloat fields hold the floating point
\* value of their last argument, fraction included; and a scan that a value
\* parser ended did not end at a literal of the declared kind.
C29_ParserOfTheDeclaredKind ==
  /\ ScanDone =>
       \E all \in {Occurrences(argv, 1, FlagNames)} :
         /\ \A k \in DOMAIN all : LiteralOf(KindOf(all[k].name), all[k].value)
         /\ \A k \in DOMAIN all :
              (/\ KindOf(all[k].name) = "ArgFloat"
               /\ \A l \in DOMAIN all : all[l].name = all[k].name => l <= k)
                => Floating(IdOf(all[k].name)) =
                     ValueOf(ParseOptionDouble(all[k].value))
  /\ (pc = "thrown" /\ thrown.by = "value parser") =>
       \E i \in {FirstBad(argv, 1)} :
         \E name \in {FlagNameOf(ArgvAt(argv, i))} :
           KindOf(name) \in {"ArgBool", "ArgFloat"} =>
             ~LiteralOf(KindOf(name),
                        IF Separately(argv, i) THEN ArgvAt(argv, i + 1)
                        ELSE SubstrFrom(ArgvAt(argv, i),
                                        Find(ArgvAt(argv, i), "=", 0) + 1))

(***************************************************************************)
(* Properties of a second call of Parse, checked under SpecParseAgain      *)
(***************************************************************************)
\* C30: when a second call of Parse with the same tokens and environment
\* has ended, it has ended as the first did: it returned the same
\* parameters or threw the same exception, the cursor the first call left
\* behind making it skip no token.
C30_SecondCallSameResult ==
  (pc \in {"returned", "thrown"} /\ ret # NoCall) =>
    ret.res = [pc |-> pc, lparams |-> lparams, thrown |-> thrown]

====
